---------------------------- MODULE Spec2Model ----------------------------
(***************************************************************************)
(* FoodEnough backend (Backend/main.py): the ANI recalibration engine      *)
(* run_recalibration, and the two schedulers that invoke it, the on-demand *)
(* endpoint /ani/recalibrate and the batch sweep /ani/auto-recalibrate.    *)
(*                                                                         *)
(* Units.  Calories and grams are integers.  Time is counted in ticks,     *)
(* TicksPerDay ticks to a UTC calendar day.  A weight change is held in    *)
(* hundredths of a pound per week, learned_neat in tenths of a kcal (the   *)
(* code stores round(x, 1)).  Python floats are modelled by exact          *)
(* rationals, a numerator over a stated denominator; round() is Python's   *)
(* round-half-to-even.  NULL is Python's None in a nullable column.        *)
(***************************************************************************)
EXTENDS Integers, Sequences, FiniteSets, TLC

VARIABLES
    clock,      \* datetime.utcnow(), in ticks
    users,      \* table users: user id -> row
    recals,     \* table ani_recalibrations: set of committed rows
    insights,   \* table ani_insights: set of committed rows
    sweep,      \* /ani/auto-recalibrate: position and counters of its loop
    inflight,   \* /ani/recalibrate requests that have read but not committed
    resp,       \* the response given in the last step, if it gave one
    eng,        \* the engine on its own: the last run_recalibration call
    store       \* the tables the schedulers do not write, by table name

vars == <<clock, users, recals, insights, sweep, inflight, resp, eng, store>>

NULL == 0 - 1

-----------------------------------------------------------------------------
(* Bounds of the model                                                     *)

TicksPerDay == 2
MaxDay == 7
MaxClock == MaxDay * TicksPerDay
MaxRuns == 2

-----------------------------------------------------------------------------
(* Arithmetic helpers                                                      *)

Abs(x) == IF x < 0 THEN 0 - x ELSE x
Min(a, b) == IF a <= b THEN a ELSE b
Max(a, b) == IF a >= b THEN a ELSE b

\* Python round(n / d) for d > 0: nearest integer, ties to the even one.
PyRound(n, d) ==
    LET q == n \div d
        r == n % d
    IN  IF 2 * r < d THEN q
        ELSE IF 2 * r > d THEN q + 1
        ELSE IF q % 2 = 0 THEN q ELSE q + 1

RECURSIVE SumOver(_, _)
\* sum(f[x] for x in S)
SumOver(S, f) ==
    IF S = {} THEN 0
    ELSE LET x == CHOOSE y \in S : TRUE
         IN  f[x] + SumOver(S \ {x}, f)

RECURSIVE SeqSum(_)
SeqSum(s) == IF s = <<>> THEN 0 ELSE Head(s) + SeqSum(Tail(s))

Truthy(x) == x # NULL /\ x # 0

-----------------------------------------------------------------------------
(* Goal Calculator: calculate_nutrition_goals                              *)

\* ACTIVITY_MULTIPLIERS, in fortieths (1.2 = 48/40 ... 1.9 = 76/40);
\* .get(activity_level, 1.55) for a level that is not in the table.
ActivityMultiplier40(activity_level) ==
    CASE activity_level = "sedentary"   -> 48
      [] activity_level = "light"       -> 55
      [] activity_level = "moderate"    -> 62
      [] activity_level = "active"      -> 69
      [] activity_level = "very_active" -> 76
      [] OTHER                          -> 62

\* bmr in units of 1e-5 kcal: 10 * (weight_lbs * 0.453592) + 6.25 * height_cm
\* - 5 * age + 5 (male) or - 161.
Bmr5(weight_lbs, height_cm, age, sex) ==
    weight_lbs * 453592 + height_cm * 625000 - age * 500000
      + (IF sex = "M" THEN 500000 ELSE 0 - 16100000)

\* tdee = bmr * multiplier as whole kcal plus a fraction frac / 4000000.
\* The product is split so that no intermediate value leaves 32 bits.
Tdee(weight_lbs, height_cm, age, sex, activity_level) ==
    LET b  == Bmr5(weight_lbs, height_cm, age, sex)
        k  == ActivityMultiplier40(activity_level)
        hi == b \div 4000000
        lo == b % 4000000
    IN  [whole |-> hi * k + (lo * k) \div 4000000,
         frac  |-> (lo * k) % 4000000]

\* round(whole + frac / 4000000 + shift)
RoundTdee(t, shift) ==
    LET w == t.whole + shift
    IN  IF 2 * t.frac < 4000000 THEN w
        ELSE IF 2 * t.frac > 4000000 THEN w + 1
        ELSE IF w % 2 = 0 THEN w ELSE w + 1

calculate_nutrition_goals(weight_lbs, height_cm, age, sex, activity_level, goal) ==
    LET tdee == Tdee(weight_lbs, height_cm, age, sex, activity_level)
        shift == IF goal = "lose" THEN 0 - 500
                 ELSE IF goal = "gain" THEN 300 ELSE 0
        target_calories == Max(1200, RoundTdee(tdee, shift))
        protein_g0 == PyRound(weight_lbs * 907184, 1000000)
        fat_g == PyRound(target_calories, 30)
        fat_cal == fat_g * 9
        trim == protein_g0 * 4 + fat_cal > target_calories
        protein_cal == IF trim THEN Max(0, target_calories - fat_cal)
                       ELSE protein_g0 * 4
        protein_g == IF trim THEN PyRound(protein_cal, 4) ELSE protein_g0
        carb_cal == Max(0, target_calories - protein_cal - fat_cal)
    IN  [calorie_goal |-> target_calories,
         protein_goal |-> protein_g,
         carbs_goal   |-> PyRound(carb_cal, 4),
         fat_goal     |-> fat_g,
         tdee         |-> RoundTdee(tdee, 0)]

-----------------------------------------------------------------------------
(* Recalibration Engine: run_recalibration, step by step                   *)

\* log.timestamp.strftime("%Y-%m-%d"): the UTC calendar day of a timestamp
DayKey(t) == t \div TicksPerDay

\* log.timestamp.weekday(): 0 = Monday ... 6 = Sunday; day 0 is a Monday
Weekday(t) == DayKey(t) % 7

\* Aggregate daily averages from food logs.  food_logs is a set of rows
\* [timestamp, calories, protein].
Intake(food_logs) ==
    LET days == {DayKey(l.timestamp) : l \in food_logs}
        days_logged == Cardinality(days)
        cal == [l \in food_logs |-> l.calories]
        pro == [l \in food_logs |-> l.protein]
        weekend == {l \in food_logs : Weekday(l.timestamp) >= 5}
        weekday == food_logs \ weekend
        weekend_n == Cardinality({DayKey(l.timestamp) : l \in weekend})
        weekday_n == Cardinality({DayKey(l.timestamp) : l \in weekday})
        weekend_sum == SumOver(weekend, pro)
        weekday_sum == SumOver(weekday, pro)
    IN  [days_logged |-> days_logged,
         avg_cal |-> SumOver(food_logs, cal) \div Max(days_logged, 1),
         avg_pro |-> SumOver(food_logs, pro) \div Max(days_logged, 1),
         \* weekday_pro_avg > 0 and len(weekend_pro_total) > 0
         \* and weekend_pro_avg < weekday_pro_avg * 0.75
         weekend_protein_dip |->
             /\ weekday_sum > 0
             /\ weekend_n > 0
             /\ 4 * weekend_sum * weekday_n < 3 * weekday_sum * weekend_n]

\* _window_config: the four windows and their base weights, in percent
WindowLabels == <<"7d", "30d", "60d", "90d">>
BaseWeight(label) ==
    CASE label = "7d"  -> 15
      [] label = "30d" -> 50
      [] label = "60d" -> 25
      [] label = "90d" -> 10

\* A window result of _compute_window_delta is NoWindow (None) or
\* [delta (hundredths of a lb per week), is_noisy, n_entries].
NoWindow == [n_entries |-> 0]
IsWindow(w) == w.n_entries > 0

\* A weight entry is [age (whole days between its timestamp and now),
\* weight_lbs (whole pounds)].
\* statistics.stdev(weight_values) > 2.0: the sample variance is above 4,
\* that is n * sum(x^2) - sum(x)^2 > 4 * n * (n - 1)
StdevAbove2(entries) ==
    LET n == Cardinality(entries)
        s == SumOver(entries, [e \in entries |-> e.weight_lbs])
        q == SumOver(entries, [e \in entries |-> e.weight_lbs * e.weight_lbs])
    IN  n * q - s * s > 4 * n * (n - 1)

\* sorted(entries, key=timestamp): its first and its last entry
Oldest(entries) == CHOOSE e \in entries : \A o \in entries : o.age <= e.age
Newest(entries) == CHOOSE e \in entries : \A o \in entries : o.age >= e.age

\* delta_per_week = raw_delta * 7.0 / days_span, in hundredths of a pound
ExactDelta(entries) ==
    ((Newest(entries).weight_lbs - Oldest(entries).weight_lbs) * 700)
        % Max(Oldest(entries).age - Newest(entries).age, 1) = 0

\* _compute_window_delta(entries, min_entries, check_noise), for entries
\* whose delta is a whole number of hundredths
compute_window_delta(entries, min_entries, check_noise) ==
    IF entries = {} \/ Cardinality(entries) < min_entries
    THEN NoWindow
    ELSE LET days_span == Max(Oldest(entries).age - Newest(entries).age, 1)
             raw_delta == Newest(entries).weight_lbs - Oldest(entries).weight_lbs
         IN  [delta |-> (raw_delta * 700) \div days_span,
              is_noisy |-> /\ check_noise
                           /\ Cardinality(entries) >= 2
                           /\ StdevAbove2(entries),
              n_entries |-> Cardinality(entries)]

\* (ActiveWindowsKeepNoisy keeps a noisy 7d window in the blend)
ActiveWindowsKeepNoisy(windows) == {i \in 1..4 : IsWindow(windows[i])}
\* Exclude unavailable windows and a noisy 7d window.
ActiveWindows(windows) ==
    {i \in 1..4 : /\ IsWindow(windows[i])
                  /\ ~(WindowLabels[i] = "7d" /\ windows[i].is_noisy)}

\* Signal 1: the blend.  weight_delta = num / (100 * den) lbs per week, where
\* num = sum(delta * base weight) and den = total_raw_weight.
WeightSignal(windows) ==
    LET active == ActiveWindows(windows)
        num == SumOver(active, [i \in active |->
                   windows[i].delta * BaseWeight(WindowLabels[i])])
        den == SumOver(active, [i \in active |-> BaseWeight(WindowLabels[i])])
    IN  [known |-> active # {},
         num |-> num,
         den |-> den,
         windows_used |-> {WindowLabels[i] : i \in active},
         signal_used |->
             IF Cardinality(active) >= 2 THEN "multi_window"
             ELSE IF Cardinality(active) = 1
                  THEN LET i == CHOOSE j \in active : TRUE
                       IN  CASE WindowLabels[i] = "7d"  -> "weight_7d"
                             [] WindowLabels[i] = "30d" -> "weight_30d"
                             [] WindowLabels[i] = "60d" -> "weight_60d"
                             [] WindowLabels[i] = "90d" -> "weight_90d"
                  ELSE "calories_only"]

\* trend_windows: None for an unavailable window, else its delta, base
\* weight and number of entries, and for the 7-day window whether it is
\* noisy
TrendWindows(windows) ==
    [i \in 1..4 |->
        IF ~IsWindow(windows[i]) THEN NoWindow
        ELSE IF WindowLabels[i] = "7d"
        THEN [delta |-> windows[i].delta,
              weight |-> BaseWeight(WindowLabels[i]),
              entries |-> windows[i].n_entries,
              noisy |-> windows[i].is_noisy]
        ELSE [delta |-> windows[i].delta,
              weight |-> BaseWeight(WindowLabels[i]),
              entries |-> windows[i].n_entries]]

\* user.goal_type or "maintain"
GoalType(user) == IF user.goal_type = "" THEN "maintain" ELSE user.goal_type

\* (ClassifyOnTrack calls every known trend on_track)
ClassifyOnTrack(goal_type, ws) == IF ws.known THEN "on_track" ELSE "no_data"
\* Classify the weight trend signal against the goal type.
Classify(goal_type, ws) ==
    LET n == ws.num
        t == ws.den
    IN  IF ~ws.known THEN "no_data"
        ELSE IF goal_type = "lose" THEN
            IF (0 - 200) * t <= n /\ n <= (0 - 50) * t THEN "on_track"
            ELSE IF n < (0 - 200) * t THEN "too_fast"
            ELSE IF (0 - 50) * t < n /\ n <= 0 THEN "too_slow"
            ELSE "wrong_direction"
        ELSE IF goal_type = "gain" THEN
            IF 25 * t <= n /\ n <= 100 * t THEN "on_track"
            ELSE IF n > 100 * t THEN "too_fast"
            ELSE IF 0 < n /\ n < 25 * t THEN "too_slow"
            ELSE "wrong_direction"
        ELSE
            IF Abs(n) < 50 * t THEN "on_track"
            ELSE IF n < (0 - 100) * t THEN "too_fast"
            ELSE IF n > 100 * t THEN "too_slow"
            ELSE "on_track"

\* Signal 2a-2c: NEAT baseline, workout calories, device expenditure.
\* neat_estimate is in tenths of a kcal; workout_total / 7 is avg_workout_cal.
Expenditure(user, d) ==
    LET anthro == /\ Truthy(user.height_cm) /\ Truthy(user.age)
                  /\ user.sex # "" /\ user.activity_level # ""
                  /\ Truthy(d.latest_weight_lbs)
        tdee == calculate_nutrition_goals(d.latest_weight_lbs, user.height_cm,
                    user.age, user.sex, user.activity_level, "maintain").tdee
        used_burn_logs == d.db /\ d.burn_total > 0
        done == {i \in 1..Len(d.plan_sessions) :
                    /\ d.plan_sessions[i].is_completed
                    /\ d.plan_sessions[i].est_cal # NULL}
        values == SelectSeq(d.health_metrics, LAMBDA v : v # NULL)
        has_real == Len(values) >= 3
    IN  [neat_estimate |-> IF Truthy(user.learned_neat) THEN user.learned_neat
                           ELSE IF anthro THEN 10 * tdee ELSE NULL,
         estimated_tdee |-> IF anthro THEN tdee ELSE NULL,
         workout_total |->
             IF used_burn_logs THEN d.burn_total
             ELSE IF d.plan_sessions # <<>> /\ Truthy(d.latest_weight_lbs)
                  THEN SumOver(done, [i \in done |-> d.plan_sessions[i].est_cal])
                  ELSE 0,
         has_real_expenditure |-> has_real,
         avg_expenditure |-> IF has_real THEN SeqSum(values) \div Len(values)
                             ELSE NULL]

\* Signal 2d: learn the user's NEAT.  calculated_neat = cnum / den kcal with
\* den = total_raw_weight; new_learned_neat = newnum / (100 * den) kcal.
\* (NeatSignalsAll lets every window teach the NEAT)
NeatSignalsAll ==
    {"weight_7d", "weight_30d", "weight_60d", "weight_90d", "multi_window"}
NeatSignals == {"weight_7d", "weight_30d", "multi_window"}

SmoothOvershoot(prev, cnum) == 7 * prev + 40 * cnum
\* new_learned_neat = 0.7 * previous_neat + 0.3 * calculated_neat, with
\* previous_neat = prev / (10 * den) and calculated_neat = cnum / den
Smooth(prev, cnum) == 7 * prev + 30 * cnum

LearnNeat(user, d, intake, ws, ex) ==
    LET gate == /\ ws.known
                /\ intake.avg_cal > 0
                /\ intake.days_logged >= 5
                /\ ws.signal_used \in NeatSignals
        cnum == intake.avg_cal * ws.den - 5 * ws.num
        learns == gate /\ cnum > 800 * ws.den
        \* previous_neat, over 10 * den
        prev == IF Truthy(user.learned_neat) THEN user.learned_neat * ws.den
                ELSE IF Truthy(ex.neat_estimate) THEN ex.neat_estimate * ws.den
                ELSE 10 * cnum
        newnum == Smooth(prev, cnum)
        \* 0.7 * previous_neat + 0.3 * calculated_neat is computed in binary
        \* floating point: where the exact sum lies halfway between two
        \* one-decimal values the float lies on either side of it
        tie == 2 * (newnum % (10 * ws.den)) = 10 * ws.den
    IN  [learns |-> learns,
         tie |-> learns /\ tie,
         cnum |-> cnum,
         den |-> ws.den,
         previous_neat |-> [num |-> prev, den |-> 10 * ws.den],
         newnum |-> newnum,
         \* user.learned_neat = round(new_learned_neat, 1), if db is supplied
         learned_neat |-> IF learns /\ d.db
                          THEN IF tie
                               THEN newnum \div (10 * ws.den)
                                    + (IF d.float_up THEN 1 ELSE 0)
                               ELSE PyRound(newnum, 10 * ws.den)
                          ELSE user.learned_neat]

\* calories_out = n / dd kcal: device average, or NEAT + workout calories
CaloriesOut(ex, ln) ==
    IF ex.has_real_expenditure
    THEN [known |-> TRUE, n |-> ex.avg_expenditure, dd |-> 1]
    ELSE IF ln.learns
    THEN [known |-> TRUE,
          n |-> 7 * ln.newnum + 100 * ln.den * ex.workout_total,
          dd |-> 700 * ln.den]
    ELSE IF Truthy(ex.neat_estimate)
    THEN [known |-> TRUE, n |-> 7 * ex.neat_estimate + 10 * ex.workout_total,
          dd |-> 70]
    ELSE [known |-> FALSE, n |-> 0, dd |-> 1]

\* Signal 3: net_balance = num / dd kcal and the cross-check with the trend
EnergyBalance(goal_type, intake, ws, co) ==
    LET has == co.known /\ co.n # 0 /\ intake.avg_cal > 0
        num == intake.avg_cal * co.dd - co.n
    IN  [known |-> has,
         num |-> IF has THEN num ELSE 0,
         dd |-> co.dd,
         calories_out |-> co.known /\ co.n # 0,
         agrees |->
             IF ~(has /\ ws.known) THEN "none"
             ELSE IF goal_type = "lose"
                  THEN IF num < 0 /\ ws.num < 0 THEN "true" ELSE "false"
             ELSE IF goal_type = "gain"
                  THEN IF num > 0 /\ ws.num > 0 THEN "true" ELSE "false"
             ELSE IF Abs(num) < 300 * co.dd /\ Abs(ws.num) < 100 * ws.den
                  THEN "true" ELSE "false"]

Insight(type, title) == [type |-> type, title |-> title]

\* energy_balance_agrees is False (BalanceIgnored cuts whatever the balance)
BalanceIgnored(eb) == TRUE
BalanceDisagrees(eb) == eb.agrees = "false"

\* (WeightAdjustmentHolds never changes the calories)
WeightAdjustmentHolds(goal_type, signal, eb) ==
    [mult |-> 100, reasoning |-> <<>>, insights |-> <<>>]
\* Weight-driven adjustment (Signal 1): the calorie multiplier in percent, the
\* reasoning sentence and the insight of the (goal_type, classification) row.
WeightAdjustment(goal_type, signal, eb) ==
    LET Row(m, r, i) == [mult |-> m, reasoning |-> <<r>>, insights |-> i]
    IN  IF signal = "no_data"
        THEN Row(100, "no_weight_data",
                 <<Insight("tip", "Weigh in to unlock smarter adjustments")>>)
        ELSE IF goal_type = "lose" THEN
            CASE signal = "too_fast" ->
                   Row(105, "lose_too_fast",
                       <<Insight("warning", "Losing a bit too quickly")>>)
              [] signal = "on_track" ->
                   Row(100, "lose_on_track",
                       <<Insight("achievement", "Right on track")>>)
              [] signal = "too_slow" ->
                   IF BalanceDisagrees(eb)
                   THEN Row(97, "lose_too_slow_trim", <<>>)
                   ELSE Row(100, "lose_too_slow_hold", <<>>)
              [] signal = "wrong_direction" ->
                   IF BalanceDisagrees(eb) /\ eb.known /\ eb.num > 0
                   THEN Row(95, "lose_wrong_direction_cut", <<>>)
                   ELSE Row(100, "lose_wrong_direction_hold", <<>>)
        ELSE IF goal_type = "gain" THEN
            CASE signal = "on_track" ->
                   Row(100, "gain_on_track",
                       <<Insight("achievement", "Gaining on pace")>>)
              [] signal = "too_slow" -> Row(105, "gain_too_slow", <<>>)
              [] signal = "too_fast" ->
                   Row(97, "gain_too_fast",
                       <<Insight("warning", "Gaining a bit fast")>>)
              [] signal = "wrong_direction" ->
                   Row(107, "gain_wrong_direction", <<>>)
        ELSE
            CASE signal = "on_track" ->
                   Row(100, "maintain_on_track",
                       <<Insight("achievement", "Maintenance locked in")>>)
              [] signal = "too_fast" -> Row(107, "maintain_too_fast", <<>>)
              [] signal = "too_slow" -> Row(95, "maintain_too_slow", <<>>)
              [] OTHER -> [mult |-> 100, reasoning |-> <<>>, insights |-> <<>>]

\* Energy balance cross-reference insight
BalanceInsight(eb, ws) ==
    IF eb.agrees = "true"
    THEN <<Insight("achievement", "Scale and logging agree")>>
    ELSE IF eb.agrees = "false" /\ ws.known
    THEN <<Insight("pattern", "Scale and logging don't quite match")>>
    ELSE <<>>

\* Expenditure insight from health metrics: the nudge of new_cal, in 1e-4 kcal
\* (NudgeWithoutDevice compares the estimate with a burn nobody measured)
NudgeWithoutDevice(ex) == Truthy(ex.estimated_tdee)
\* has_real_expenditure and expenditure_vs_estimate is not None and
\* estimated_tdee
HasNudge(ex) ==
    /\ ex.has_real_expenditure
    /\ Truthy(ex.avg_expenditure)
    /\ Truthy(ex.estimated_tdee)

ExpenditureNudge(prev_cal, ex) ==
    LET has == HasNudge(ex)
        vs == ex.avg_expenditure - ex.estimated_tdee
    IN  IF has /\ vs > 300
        THEN [delta |-> Min(vs * 3000, prev_cal * 500),
              reasoning |-> <<"burn_higher">>,
              insights |-> <<Insight("pattern", "Higher actual activity")>>]
        ELSE IF has /\ vs < 0 - 200
        THEN [delta |-> 0 - Min(Abs(vs) * 3000, prev_cal * 500),
              reasoning |-> <<"burn_lower">>,
              insights |-> <<Insight("pattern", "Adjusted for actual activity")>>]
        ELSE [delta |-> 0, reasoning |-> <<>>, insights |-> <<>>]

\* Workout adherence = completed / max(total_planned, 1)
Adherence(plan_sessions) ==
    LET total == Len(plan_sessions)
        completed == Cardinality({i \in 1..total : plan_sessions[i].is_completed})
    IN  [total_planned |-> total,
         completed_sessions |-> completed,
         low |-> total > 0 /\ 2 * completed < total,
         high |-> total > 0 /\ 5 * completed >= 4 * total]

\* The adjustment rules in their order: new_cal in 1e-4 kcal, new_pro in
\* hundredths of a gram, before the caps.
Adjust(goal_type, goals, intake, signal, ws, ex, eb, plan_sessions) ==
    LET prev_cal == goals.calorie_goal
        wa == WeightAdjustment(goal_type, signal, eb)
        nudge == ExpenditureNudge(prev_cal, ex)
        adh == Adherence(plan_sessions)
        consistent_over == /\ prev_cal # 0
                           /\ 100 * intake.avg_cal > 115 * prev_cal
                           /\ intake.days_logged >= 5
        over == consistent_over /\ goal_type # "lose"
        a1 == prev_cal * 100 * wa.mult
        a2 == a1 + nudge.delta
        a3 == IF adh.low THEN (a2 \div 100) * 97 ELSE a2
        a4 == IF over
              THEN a3 + Min((intake.avg_cal - prev_cal) * 5000, prev_cal * 1000)
              ELSE a3
    IN  [new_cal |-> a4,
         \* what the weight-driven step alone did, and the nudge alone
         weight_step |-> [mult |-> wa.mult, insights |-> wa.insights],
         expenditure_step |-> nudge.delta,
         adherence |-> adh,
         new_pro |-> IF intake.weekend_protein_dip
                     THEN goals.protein_goal * 105 ELSE goals.protein_goal * 100,
         reasoning |-> wa.reasoning \o nudge.reasoning
                       \o (IF intake.weekend_protein_dip
                           THEN <<"weekend_protein_dip">> ELSE <<>>)
                       \o (IF adh.low THEN <<"fewer_workouts">> ELSE <<>>)
                       \o (IF over THEN <<"eating_above_target">> ELSE <<>>),
         insights |-> wa.insights \o BalanceInsight(eb, ws) \o nudge.insights
                      \o (IF intake.weekend_protein_dip
                          THEN <<Insight("pattern", "Weekend protein dip")>>
                          ELSE <<>>)
                      \o (IF adh.low
                          THEN <<Insight("warning", "Fewer workouts this week")>>
                          ELSE IF adh.high
                          THEN <<Insight("achievement", "Strong workout consistency")>>
                          ELSE <<>>),
         patterns |-> (IF intake.weekend_protein_dip
                       THEN {"weekend_protein_dip"} ELSE {})
                      \cup (IF /\ prev_cal # 0
                               /\ 100 * intake.avg_cal < 80 * prev_cal
                               /\ intake.days_logged >= 5
                            THEN {"consistent_under_eating"} ELSE {})
                      \cup (IF consistent_over
                            THEN {"consistent_over_eating"} ELSE {})]

\* max(round(prev - prev * 0.10), min(value, round(prev + prev * 0.10)))
CapMacro(prev, value) ==
    Max(PyRound(prev * 9, 10), Min(value, PyRound(prev * 11, 10)))

\* (CapCaloriesNoFloor keeps the band and drops the floor)
CapCaloriesNoFloor(prev_cal, new_cal) ==
    PyRound(Max(Min(new_cal, prev_cal * 11000), prev_cal * 9000), 10000)
\* new_cal = max(1200, min(new_cal, prev_cal + max_cal_change));
\* new_cal = max(new_cal, prev_cal - max_cal_change); round(new_cal)
CapCalories(prev_cal, new_cal) ==
    LET max_cal_change == prev_cal * 1000
        capped == Max(1200 * 10000,
                      Min(new_cal, prev_cal * 10000 + max_cal_change))
    IN  PyRound(Max(capped, prev_cal * 10000 - max_cal_change), 10000)

\* Enforce 10% cap on all adjustments, floor at 1200 kcal; recompute carbs
\* and fat from the adjusted calories.
Clamp(goals, adj) ==
    LET new_cal == CapCalories(goals.calorie_goal, adj.new_cal)
        new_pro == CapMacro(goals.protein_goal, PyRound(adj.new_pro, 100))
        new_fat == CapMacro(goals.fat_goal, PyRound(new_cal, 30))
        remaining_cal == Max(0, new_cal - new_pro * 4 - new_fat * 9)
        new_carbs == CapMacro(goals.carbs_goal, PyRound(remaining_cal, 4))
    IN  [calorie_goal |-> new_cal,
         protein_goal |-> new_pro,
         carbs_goal   |-> new_carbs,
         fat_goal     |-> new_fat]

\* Logging consistency insights
LoggingInsight(days_logged) ==
    IF days_logged >= 6
    THEN <<Insight("achievement", "Consistent logging")>>
    ELSE IF days_logged >= 5
    THEN <<Insight("tip", "Almost full coverage")>>
    ELSE <<>>

\* run_recalibration(user, food_logs, weight_entries, plan_sessions,
\* current_goals, health_metrics, ..., db).  d carries the fetched data:
\* food_logs, windows (the four _compute_window_delta results),
\* latest_weight_lbs, burn_total, plan_sessions, health_metrics, db.
\* learned_neat is the value of user.learned_neat when the call returns.
run_recalibration(user, d, current_goals) ==
    LET Signals(goal_type, intake, ws, ex) ==
          LET Learned(signal, ln) ==
                LET Balanced(eb) ==
                      LET Adjusted(adj) ==
                            [new_goals |-> Clamp(current_goals, adj),
                             analysis |->
                                 [days_logged |-> intake.days_logged,
                                  avg_calories |-> intake.avg_cal,
                                  patterns |-> adj.patterns,
                                  total_planned |->
                                      adj.adherence.total_planned,
                                  completed_sessions |->
                                      adj.adherence.completed_sessions,
                                  weight_known |-> ws.known,
                                  \* weight_delta = num / (100 * den) lbs
                                  \* per week, unrounded
                                  weight_delta |-> [num |-> ws.num,
                                                    den |-> ws.den],
                                  weight_trend_signal |-> signal,
                                  \* calories_out is not None
                                  calories_out_known |-> eb.calories_out,
                                  energy_balance_agrees |-> eb.agrees,
                                  signal_used |-> ws.signal_used,
                                  trend_windows |-> TrendWindows(d.windows),
                                  windows_used |-> ws.windows_used],
                             reasoning |-> IF adj.reasoning = <<>>
                                           THEN <<"targets_look_good">>
                                           ELSE adj.reasoning,
                             insights |-> adj.insights
                                          \o LoggingInsight(intake.days_logged),
                             weight_step |-> adj.weight_step,
                             expenditure_step |-> adj.expenditure_step,
                             net_balance |-> [known |-> eb.known, num |-> eb.num,
                                              dd |-> eb.dd],
                             learns |-> ln.learns,
                             tie |-> ln.tie,
                             previous_neat |-> ln.previous_neat,
                             calculated_neat |-> [num |-> ln.cnum, den |-> ln.den],
                             learned_neat |-> ln.learned_neat]
                      IN  Adjusted(Adjust(goal_type, current_goals, intake, signal,
                                          ws, ex, eb, d.plan_sessions))
                IN  Balanced(EnergyBalance(goal_type, intake, ws,
                                           CaloriesOut(ex, ln)))
          IN  Learned(Classify(goal_type, ws), LearnNeat(user, d, intake, ws, ex))
    IN  Signals(GoalType(user), Intake(d.food_logs), WeightSignal(d.windows),
                Expenditure(user, d))

-----------------------------------------------------------------------------
(* The engine on its own: inputs drawn from bounded sets                   *)

Window(delta, noisy) == [delta |-> delta, is_noisy |-> noisy, n_entries |-> 5]

\* the four window results handed to the blend
WindowChoices ==
    {<<NoWindow, NoWindow, NoWindow, NoWindow>>,
     <<NoWindow, NoWindow, Window(0 - 100, FALSE), NoWindow>>,
     <<Window(0 - 250, TRUE), Window(0 - 100, FALSE), NoWindow, NoWindow>>,
     <<Window(0 - 20, FALSE), Window(31, FALSE), NoWindow, NoWindow>>}
    \cup {<<Window(dl, FALSE), NoWindow, NoWindow, NoWindow>> :
              dl \in {0 - 250, 0 - 100, 0 - 20, 10, 50, 150}}

\* food logs of one row a day on the given days
DailyLogs(days, calories, protein, weekend_protein) ==
    {[timestamp |-> dy * TicksPerDay,
      calories |-> calories,
      protein |-> IF dy % 7 >= 5 THEN weekend_protein ELSE protein] : dy \in days}

FoodChoices ==
    {DailyLogs(0..6, 2000, 100, 100),
     DailyLogs(0..4, 3000, 100, 100),
     DailyLogs(0..3, 2000, 100, 100),
     DailyLogs(0..6, 2000, 100, 50),
     DailyLogs(1..6, 1400, 100, 100),
     {}}

Session(done, est_cal) == [is_completed |-> done, est_cal |-> est_cal]

SessionChoices ==
    {<<>>,
     <<Session(TRUE, 300), Session(FALSE, 300), Session(FALSE, NULL),
       Session(FALSE, 300)>>,
     <<Session(TRUE, 300), Session(TRUE, 300), Session(TRUE, NULL),
       Session(TRUE, 300)>>}

MetricChoices ==
    {<<>>, <<2600, 2600, 2600>>, <<1500, NULL, 1500, 1500>>, <<2600, NULL>>}

EngineData ==
    [food_logs : FoodChoices,
     windows : WindowChoices,
     latest_weight_lbs : {154},
     burn_total : {0, 700},
     plan_sessions : SessionChoices,
     health_metrics : MetricChoices,
     db : {TRUE},
     float_up : BOOLEAN]

\* the inputs that decide the NEAT update, with the rest held fixed
NeatDataAll ==
    [food_logs : {DailyLogs(0..6, 2000, 100, 100), DailyLogs(0..4, 3000, 100, 100),
                  DailyLogs(0..3, 2000, 100, 100)},
     windows : WindowChoices,
     latest_weight_lbs : {NULL, 154},
     burn_total : {0},
     plan_sessions : {<<>>},
     health_metrics : {<<>>},
     db : {TRUE, FALSE},
     float_up : BOOLEAN]

\* latest_weight_lbs is None only if the 7-day and 30-day lists are empty
NeatData ==
    {d \in NeatDataAll : d.latest_weight_lbs = NULL =>
                             ~IsWindow(d.windows[1]) /\ ~IsWindow(d.windows[2])}

GoalChoices ==
    {[calorie_goal |-> 2000, protein_goal |-> 150, carbs_goal |-> 200, fat_goal |-> 65],
     [calorie_goal |-> 2005, protein_goal |-> 25, carbs_goal |-> 25, fat_goal |-> 25],
     [calorie_goal |-> 1000, protein_goal |-> 50, carbs_goal |-> 100, fat_goal |-> 30],
     [calorie_goal |-> 1250, protein_goal |-> 100, carbs_goal |-> 0, fat_goal |-> 0],
     [calorie_goal |-> 1210, protein_goal |-> 95, carbs_goal |-> 125, fat_goal |-> 45],
     [calorie_goal |-> 3000, protein_goal |-> 200, carbs_goal |-> 300, fat_goal |-> 100]}

\* the columns of a users row that the engine reads
EngineUsers ==
    [goal_type : {"lose", "gain", "maintain"},
     learned_neat : {NULL, 21000},
     height_cm : {170}, age : {30}, sex : {"M"},
     activity_level : {"", "moderate"}]

\* the side on which the float sum falls is open only at a tie
FloatChoice(user, d, current_goals) ==
    d.float_up => run_recalibration(user, d, current_goals).tie

NoRun == [new_goals |-> [calorie_goal |-> NULL]]
Idle == [runs |-> 0]

\* one call of run_recalibration on the engine's user: the result is kept
\* and user.learned_neat is written as the call writes it
EngineCall(d) ==
    LET r == run_recalibration(eng.user, d, eng.goals)
    IN  eng' = [eng EXCEPT
                  !.runs = @ + 1,
                  !.user.learned_neat = r.learned_neat,
                  !.out = r,
                  !.log = IF r.learns /\ d.db
                          THEN Append(@, [previous_neat |-> r.previous_neat,
                                          calculated_neat |-> r.calculated_neat,
                                          learned_neat |-> r.learned_neat])
                          ELSE @]

-----------------------------------------------------------------------------
(* Tables and their rows                                                   *)

\* ids of the registered users, and of those among them who send requests
\* themselves; the others are reached by the sweep only
Users == {1, 2}
Callers == {1}

\* a users row as register() leaves it: every nullable column is None and
\* is_premium has its column default
NewUser(is_premium) ==
    [is_premium |-> is_premium,
     calorie_goal |-> NULL, protein_goal |-> NULL,
     carbs_goal |-> NULL, fat_goal |-> NULL,
     goal_type |-> "", learned_neat |-> NULL,
     height_cm |-> NULL, age |-> NULL, sex |-> "", activity_level |-> ""]

NoSweep == [active |-> FALSE]
NoResp == [op |-> "none"]

\* every table of the store without a row
NoStore ==
    [food_logs |-> {}, workouts |-> {}, weight_entries |-> {},
     fitness_profiles |-> {}, workout_plans |-> {}, plan_sessions |-> {},
     reset_tokens |-> {}, burn_logs |-> {}, health_metrics |-> {}]

-----------------------------------------------------------------------------
(* Specifications of the engine on its own                                 *)

EngineInit ==
    /\ clock = 0
    /\ users = [u \in Users |-> NewUser(1)]
    /\ recals = {}
    /\ insights = {}
    /\ sweep = NoSweep
    /\ inflight = {}
    /\ resp = NoResp
    /\ store = NoStore
    /\ eng \in [runs : {0}, user : EngineUsers, goals : GoalChoices,
                out : {NoRun}, log : {<<>>}]

\* run_recalibration called once on any of the input combinations
EngineRun ==
    /\ eng.runs = 0
    /\ \E d \in EngineData :
          FloatChoice(eng.user, d, eng.goals) /\ EngineCall(d)
    /\ UNCHANGED <<clock, users, recals, insights, sweep, inflight, resp, store>>

SpecEngine == EngineInit /\ [][EngineRun]_vars

\* run_recalibration called week after week on the same user
EngineRunAgain ==
    /\ eng.runs < MaxRuns
    /\ \E d \in NeatData :
          FloatChoice(eng.user, d, eng.goals) /\ EngineCall(d)
    /\ UNCHANGED <<clock, users, recals, insights, sweep, inflight, resp, store>>

NeatInit ==
    /\ EngineInit
    /\ eng.goals.calorie_goal = 2000
    /\ eng.user.goal_type = "maintain"

SpecNeat == NeatInit /\ [][EngineRunAgain]_vars

\* The trend classification: a single 30-day window whose delta lies on,
\* next to and between the thresholds, for a user of each goal type, an
\* unset one and one that the code does not know.
TrendDeltas ==
    {0 - 250, 0 - 201, 0 - 200, 0 - 199, 0 - 101, 0 - 100, 0 - 99, 0 - 51,
     0 - 50, 0 - 49, 0 - 1, 0, 1, 24, 25, 26, 49, 50, 51, 99, 100, 101, 150}

TrendGoalTypes == {"lose", "gain", "maintain", "", "recomp"}

TrendData(delta) ==
    [food_logs |-> DailyLogs(0..6, 2000, 100, 100),
     windows |-> <<NoWindow, Window(delta, FALSE), NoWindow, NoWindow>>,
     latest_weight_lbs |-> 154,
     burn_total |-> 0,
     plan_sessions |-> <<>>,
     health_metrics |-> <<>>,
     db |-> TRUE,
     float_up |-> FALSE]

TrendInit ==
    /\ EngineInit
    /\ eng.goals.calorie_goal = 2000
    /\ eng.user.learned_neat = NULL
    /\ eng.user.activity_level = "moderate"

\* the goal type is set through PUT /profile, which stores any string
TrendSetGoal ==
    /\ eng.runs = 0
    /\ \E g \in TrendGoalTypes : eng' = [eng EXCEPT !.user.goal_type = g]
    /\ UNCHANGED <<clock, users, recals, insights, sweep, inflight, resp, store>>

\* run_recalibration on one of the deltas; a tie of the NEAT rounding is
\* settled downwards
TrendRun ==
    /\ eng.runs = 0
    /\ \E delta \in TrendDeltas : EngineCall(TrendData(delta))
    /\ UNCHANGED <<clock, users, recals, insights, sweep, inflight, resp, store>>

SpecTrend == TrendInit /\ [][TrendSetGoal \/ TrendRun]_vars

\* The windows computed from the weight_entries table of one user.
WeightEntry(age, weight_lbs) == [age |-> age, weight_lbs |-> weight_lbs]

\* the weight queries of the schedulers: the entries of the last 7, 30, 60
\* and 90 days
Within(weights, days) == {e \in weights : e.age >= 1 /\ e.age <= days}

WeightTablesAll ==
    {{},
     {WeightEntry(3, 154)},
     {WeightEntry(6, 155), WeightEntry(1, 154)},
     {WeightEntry(6, 150), WeightEntry(1, 155)},
     {WeightEntry(20, 155), WeightEntry(10, 154)},
     {WeightEntry(29, 157), WeightEntry(6, 150), WeightEntry(1, 155)},
     {WeightEntry(29, 157), WeightEntry(6, 156), WeightEntry(1, 155)},
     {WeightEntry(5, 152), WeightEntry(3, 154), WeightEntry(1, 156)},
     {WeightEntry(5, 152), WeightEntry(3, 155), WeightEntry(1, 156)},
     {WeightEntry(57, 160), WeightEntry(50, 159), WeightEntry(43, 158)},
     {WeightEntry(57, 160), WeightEntry(50, 159), WeightEntry(43, 158),
      WeightEntry(36, 157)},
     {WeightEntry(89, 160), WeightEntry(82, 159), WeightEntry(75, 159),
      WeightEntry(68, 157)},
     {WeightEntry(89, 160), WeightEntry(82, 159), WeightEntry(75, 159),
      WeightEntry(68, 157), WeightEntry(61, 158)},
     {WeightEntry(85, 167), WeightEntry(57, 159), WeightEntry(29, 156),
      WeightEntry(6, 150), WeightEntry(1, 155)},
     {WeightEntry(85, 167), WeightEntry(57, 159), WeightEntry(29, 156),
      WeightEntry(6, 156), WeightEntry(1, 155)},
     {WeightEntry(85, 167), WeightEntry(57, 159), WeightEntry(6, 150),
      WeightEntry(1, 155)}}

\* the tables whose deltas are whole hundredths of a pound per week
WeightTables ==
    {t \in WeightTablesAll :
        \A days \in {7, 30, 60, 90} :
            Within(t, days) # {} => ExactDelta(Within(t, days))}

\* (WindowsOfTwo asks two entries of every window)
WindowsOfTwo(weights) ==
    <<compute_window_delta(Within(weights, 7), 2, TRUE),
      compute_window_delta(Within(weights, 30), 2, FALSE),
      compute_window_delta(Within(weights, 60), 2, FALSE),
      compute_window_delta(Within(weights, 90), 2, FALSE)>>
\* w7, w30, w60 and w90
WindowsOf(weights) ==
    <<compute_window_delta(Within(weights, 7), 2, TRUE),
      compute_window_delta(Within(weights, 30), 3, FALSE),
      compute_window_delta(Within(weights, 60), 4, FALSE),
      compute_window_delta(Within(weights, 90), 5, FALSE)>>

\* latest_weight_lbs: the newest entry of the 7-day list, else of the
\* 30-day list, else None
LatestWeight(weights) ==
    IF Within(weights, 7) # {} THEN Newest(Within(weights, 7)).weight_lbs
    ELSE IF Within(weights, 30) # {} THEN Newest(Within(weights, 30)).weight_lbs
    ELSE NULL

WindowFoods == {DailyLogs(0..6, 2000, 100, 100), DailyLogs(0..3, 2000, 100, 100)}

WindowData(weights, food_logs, health_metrics, db) ==
    [food_logs |-> food_logs,
     windows |-> WindowsOf(weights),
     latest_weight_lbs |-> LatestWeight(weights),
     burn_total |-> 0,
     plan_sessions |-> <<>>,
     health_metrics |-> health_metrics,
     db |-> db,
     float_up |-> FALSE]

\* eng.weights is the weight_entries table the data of the run is read from
WindowInit ==
    /\ clock = 0
    /\ users = [u \in Users |-> NewUser(1)]
    /\ recals = {}
    /\ insights = {}
    /\ sweep = NoSweep
    /\ inflight = {}
    /\ resp = NoResp
    /\ store = NoStore
    /\ eng \in [runs : {0},
                user : {u \in EngineUsers : u.activity_level = "moderate"},
                goals : {g \in GoalChoices : g.calorie_goal = 2000},
                out : {NoRun}, log : {<<>>},
                weights : WeightTables]

\* run_recalibration on the windows of the table; a tie of the NEAT
\* rounding is settled downwards
WindowRun ==
    /\ eng.runs = 0
    /\ \E food_logs \in WindowFoods, health_metrics \in {<<>>, <<2600, 2600, 2600>>},
          db \in BOOLEAN :
          EngineCall(WindowData(eng.weights, food_logs, health_metrics, db))
    /\ UNCHANGED <<clock, users, recals, insights, sweep, inflight, resp, store>>

SpecWindow == WindowInit /\ [][WindowRun]_vars

\* The engine on inputs that are missing: a user without anthropometrics
\* or learned NEAT, no weight entries or none that makes a window, no health
\* metrics or too few, no plan sessions, no persistence handle, no food logs.
AbsentUsers ==
    {[goal_type |-> g, learned_neat |-> ln,
      height_cm |-> b.height_cm, age |-> b.age, sex |-> b.sex,
      activity_level |-> b.activity_level] :
        g \in {"lose", "gain", "maintain"},
        ln \in {NULL, 21000},
        b \in {[height_cm |-> NULL, age |-> NULL, sex |-> "",
                activity_level |-> ""],
               [height_cm |-> 170, age |-> 30, sex |-> "M",
                activity_level |-> "moderate"]}}

AbsentWeights ==
    {{},
     {WeightEntry(6, 150), WeightEntry(1, 155)},
     {WeightEntry(85, 167), WeightEntry(57, 159), WeightEntry(29, 156),
      WeightEntry(6, 156), WeightEntry(1, 155)}}

AbsentMetrics == {<<>>, <<2600, NULL>>, <<2600, 2600, 2600>>}

AbsentSessions ==
    {<<>>,
     <<Session(TRUE, 300), Session(TRUE, 300), Session(TRUE, NULL),
       Session(FALSE, 300)>>}

\* eng.weights, eng.health_metrics, eng.plan_sessions and eng.db are what
\* the caller passes to the run
AbsentInit ==
    /\ clock = 0
    /\ users = [u \in Users |-> NewUser(1)]
    /\ recals = {}
    /\ insights = {}
    /\ sweep = NoSweep
    /\ inflight = {}
    /\ resp = NoResp
    /\ store = NoStore
    /\ eng \in [runs : {0},
                user : AbsentUsers,
                goals : {g \in GoalChoices : g.calorie_goal = 2000},
                out : {NoRun}, log : {<<>>},
                weights : AbsentWeights,
                health_metrics : AbsentMetrics,
                plan_sessions : AbsentSessions,
                db : BOOLEAN]

\* run_recalibration on these inputs and a week with or without food logs;
\* a tie of the NEAT rounding is settled downwards
AbsentRun ==
    /\ eng.runs = 0
    /\ \E food_logs \in {{}, DailyLogs(0..6, 2000, 100, 100)} :
          EngineCall([food_logs |-> food_logs,
                      windows |-> WindowsOf(eng.weights),
                      latest_weight_lbs |-> LatestWeight(eng.weights),
                      burn_total |-> 0,
                      plan_sessions |-> eng.plan_sessions,
                      health_metrics |-> eng.health_metrics,
                      db |-> eng.db,
                      float_up |-> FALSE])
    /\ UNCHANGED <<clock, users, recals, insights, sweep, inflight, resp, store>>

SpecAbsent == AbsentInit /\ [][AbsentRun]_vars

-----------------------------------------------------------------------------
(* The schedulers: what a request reads                                    *)

\* timedelta.days of a difference of two datetimes: whole days, floored
\* (DaysCeil counts a started day as a whole one)
DaysCeil(delta) == (delta + TicksPerDay - 1) \div TicksPerDay
Days(delta) == delta \div TicksPerDay

\* the newest created_at among the user's rows of ani_recalibrations
\* (order_by(created_at.desc()).first()), NULL if there is none
LastRecal(rs, u) ==
    LET mine == {r \in rs : r.user_id = u}
    IN  IF mine = {} THEN NULL
        ELSE CHOOSE t \in {r.created_at : r \in mine} :
                 \A r \in mine : r.created_at <= t

\* not current_user.calorie_goal or not current_user.protein_goal
NoGoals(row) == ~Truthy(row.calorie_goal) \/ ~Truthy(row.protein_goal)

\* on-demand cooldown: last_recal and (now - last_recal.created_at).days < 6
\* (NoCooldown never blocks)
NoCooldown(last, now) == FALSE
InCooldown(last, now) == last # NULL /\ Days(now - last) < 6

\* sweep: not last_recal or (now - last_recal.created_at).days < 7
\* (NotWeekOld lets a user without a record through)
NotWeekOld(last, now) == last # NULL /\ Days(now - last) < 7
NotDue(last, now) == last = NULL \/ Days(now - last) < 7

\* on-demand: not first_log or (now - first_log.timestamp).days < 7, with
\* first_log the oldest row of the user's food_logs
NoHistory(table, now) ==
    \/ table = {}
    \/ LET first == CHOOSE t \in {l.timestamp : l \in table} :
                        \A l \in table : t <= l.timestamp
       IN  Days(now - first) < 7

\* FoodLog.timestamp >= period_start, FoodLog.timestamp < period_end
PeriodLogs(table, now) ==
    {l \in table : /\ l.timestamp >= now - 7 * TicksPerDay
                   /\ l.timestamp < now}

\* len(set(log.timestamp.strftime("%Y-%m-%d") for log in food_logs))
LoggedDays(food_logs) == Cardinality({DayKey(l.timestamp) : l \in food_logs})

\* on-demand: logged_days < 5 (TooFewDaysOf3 asks for 3 days only)
TooFewDaysOf3(logged_days) == logged_days < 3
TooFewDays(logged_days) == logged_days < 5

\* sweep: logged_days < 5
SweepTooFewDays(logged_days) == logged_days < 5

\* current_goals as both schedulers build it
CurrentGoals(row) ==
    [calorie_goal |-> row.calorie_goal,
     protein_goal |-> row.protein_goal,
     carbs_goal |-> IF Truthy(row.carbs_goal) THEN row.carbs_goal ELSE 0,
     fat_goal |-> IF Truthy(row.fat_goal) THEN row.fat_goal ELSE 0]

\* The tables the schedulers only read (food_logs, weight_entries, workout
\* plans, health_metrics, burn_logs) are written by handlers that touch no
\* column and no table the schedulers write.  They are represented by what
\* a request finds in them: found is [ages, windows, latest_weight_lbs,
\* float_up, fault], with the user's food logs given by their ages in ticks.
FoodTable(found, now) ==
    {[timestamp |-> now - a, calories |-> 2000, protein |-> 100] :
         a \in found.ages}

DaysAgo(ks) == {k * TicksPerDay : k \in ks}

Found(ages, windows, latest, up, fault) ==
    [ages |-> ages, windows |-> windows, latest_weight_lbs |-> latest,
     float_up |-> up, fault |-> fault]

Unweighed == <<NoWindow, NoWindow, NoWindow, NoWindow>>
Weighed == <<Window(0 - 100, FALSE), NoWindow, NoWindow, NoWindow>>

\* fault: "flush" if the database fails the flush of the record, else "none"
NoLogs == Found({}, Unweighed, NULL, FALSE, "none")
Regular == Found(DaysAgo({1, 2, 3, 4, 5, 8}), Weighed, 154, FALSE, "none")

SweepFindings ==
    {NoLogs,
     Found(DaysAgo({1, 2, 3, 8}), Unweighed, NULL, FALSE, "none"),
     Regular,
     Found(DaysAgo({1, 2, 3, 4, 5, 8}), Weighed, 154, TRUE, "none"),
     Found(DaysAgo({1, 2, 3, 4, 5, 8}), Weighed, 154, FALSE, "flush"),
     Found(DaysAgo(1 .. 8) \cup {1}, Unweighed, NULL, FALSE, "none")}

\* a week in which the scale went down by 1.5 lbs
Losing == <<Window(0 - 150, FALSE), NoWindow, NoWindow, NoWindow>>

Findings ==
    SweepFindings
      \cup {Found(DaysAgo(1 .. 6), Unweighed, NULL, FALSE, "none"),
            Found(DaysAgo({1, 2, 3, 4, 5, 8}), Losing, 154, FALSE, "none")}

\* the arguments both schedulers hand to run_recalibration
EngineInput(found, now) ==
    [food_logs |-> PeriodLogs(FoodTable(found, now), now),
     windows |-> found.windows,
     latest_weight_lbs |-> found.latest_weight_lbs,
     burn_total |-> 0,
     plan_sessions |-> <<>>,
     health_metrics |-> <<>>,
     db |-> TRUE,
     float_up |-> found.float_up]

-----------------------------------------------------------------------------
(* The schedulers: what a run writes                                       *)

\* the database as a session sees it
Database == [users |-> users, recals |-> recals, insights |-> insights]

\* autoincrement primary key of ani_recalibrations
NextId(rs) == Cardinality(rs) + 1

\* the ANIRecalibration row of a run, its prev_ and new_ goal columns held
\* as two records; days_logged is in analysis_json; by (which scheduler) and
\* calculated_neat (of a run that learned) are kept beside the row's columns
Recal(id, u, created, now, goals, r, by) ==
    [id |-> id, user_id |-> u, created_at |-> created,
     period_start |-> now - 7 * TicksPerDay, period_end |-> now,
     prev_goals |-> goals,
     new_goals |-> r.new_goals,
     days_logged |-> r.analysis.days_logged,
     learned |-> r.learns,
     calculated_neat |-> IF r.learns THEN r.calculated_neat
                         ELSE [num |-> 0, den |-> 1],
     by |-> by]

\* one ANIInsight row for each of result["insights"]
InsightRows(id, u, r) ==
    {[recalibration_id |-> id, user_id |-> u, n |-> i,
      insight_type |-> r.insights[i].type, title |-> r.insights[i].title] :
         i \in 1 .. Len(r.insights)}

\* (StoredRowWithGoals writes the new goals to the users row as well)
StoredRowWithGoals(row, r) ==
    [row EXCEPT !.learned_neat = r.learned_neat,
                !.calorie_goal = r.new_goals.calorie_goal,
                !.protein_goal = r.new_goals.protein_goal,
                !.carbs_goal = r.new_goals.carbs_goal,
                !.fat_goal = r.new_goals.fat_goal]
\* the users row after a run: learned_neat is the one column it writes
StoredRow(row, r) == [row EXCEPT !.learned_neat = r.learned_neat]

\* run_recalibration and the writes that follow it, flushed to the session's
\* transaction: user.learned_neat, the record, its insights.  row is the
\* users row the session has loaded.
Run(db, u, row, now, created, found, by) ==
    LET Writes(id, goals, r) ==
          [users |-> [db.users EXCEPT ![u] = StoredRow(@, r)],
           recals |-> db.recals \cup {Recal(id, u, created, now, goals, r, by)},
           insights |-> db.insights \cup InsightRows(id, u, r)]
    IN  Writes(NextId(db.recals), CurrentGoals(row),
               run_recalibration(row, EngineInput(found, now), CurrentGoals(row)))

\* whether the rounding of that run's NEAT update sits on a tie
RunTie(row, now, found) ==
    run_recalibration(row, EngineInput(found, now), CurrentGoals(row)).tie

\* db.commit()
Commit(db, flushed) == flushed

\* get_db's db.close() after an exception left the handler: the transaction
\* is rolled back
CloseKeepsFlushed(db, flushed) == [db EXCEPT !.users = flushed.users]
Close(db, flushed) == db

\* the sweep's except branch: db.rollback()
RollbackKeepsFlushed(db, flushed) == [db EXCEPT !.users = flushed.users]
Rollback(db, flushed) == db

-----------------------------------------------------------------------------
(* /ani/recalibrate                                                        *)

\* the checks of ani_recalibrate and get_premium_user in their order: the
\* reason of the first that rejects the request, or "ok" (GateOpen checks
\* nothing)
GateOpen(db, u, now, found) == "ok"
Gate(db, u, now, found) ==
    LET row == db.users[u]
        table == FoodTable(found, now)
    IN  IF ~Truthy(row.is_premium) THEN "premium"
        ELSE IF NoGoals(row) THEN "goals"
        ELSE IF InCooldown(LastRecal(db.recals, u), now) THEN "cooldown"
        ELSE IF NoHistory(table, now) THEN "history"
        ELSE IF TooFewDays(LoggedDays(PeriodLogs(table, now))) THEN "days"
        ELSE "ok"

\* HTTP status of a request by the reason it ended with
Status(reason) ==
    CASE reason = "premium" -> 403
      [] reason \in {"goals", "cooldown", "history", "days"} -> 400
      [] reason = "fault" -> 500
      [] reason = "ok" -> 200

\* the engine run and the writes of a request that passed the checks
Finish(db, u, row, now, created, found, by) ==
    LET Ended(flushed) ==
          IF found.fault # "none"
          THEN [reason |-> "fault", db |-> Close(db, flushed)]
          ELSE [reason |-> "ok", db |-> Commit(db, flushed)]
    IN  Ended(Run(db, u, row, now, created, found, by))

Response(u, reason) ==
    [op |-> "recalibrate", user |-> u, status |-> Status(reason),
     detail |-> reason]

\* the whole request, served without any other request in between
ani_recalibrate(u, found) ==
    LET now == clock
        Served(reason) ==
          LET Ended(out) ==
                /\ found.float_up =>
                       reason = "ok" /\ RunTie(users[u], now, found)
                /\ users' = out.db.users
                /\ recals' = out.db.recals
                /\ insights' = out.db.insights
                /\ resp' = Response(u, out.reason)
                /\ UNCHANGED <<clock, sweep, inflight, eng, store>>
          IN  Ended(IF reason = "ok"
                    THEN Finish(Database, u, users[u], now, now, found,
                                "on_demand")
                    ELSE [reason |-> reason, db |-> Database])
    IN  Served(Gate(Database, u, now, found))

-----------------------------------------------------------------------------
(* PUT /profile and POST /profile/calculate-goals                          *)

\* a ProfileUpdate body; NULL and "" stand for a field that is not provided
Profile(cal, pro, carbs, fat, age, sex, height, activity, goal) ==
    [calorie_goal |-> cal, protein_goal |-> pro, carbs_goal |-> carbs,
     fat_goal |-> fat, age |-> age, sex |-> sex, height_cm |-> height,
     activity_level |-> activity, goal_type |-> goal]

FullProfile == Profile(2000, 150, 200, 65, 30, "m", 170, "moderate", "maintain")
ProfileUpdates ==
    {FullProfile, Profile(NULL, NULL, NULL, NULL, NULL, "", NULL, "", "")}

\* str.upper() on the values of sex
Upper(s) == CASE s = "m" -> "M" [] s = "f" -> "F" [] OTHER -> s

\* data.x or current_user.x, for a number and for a string
Or(a, b) == IF Truthy(a) THEN a ELSE b
OrStr(a, b) == IF a # "" THEN a ELSE b

\* update_profile's assignments (UpdatedResetsNeat clears learned_neat)
UpdatedResetsNeat(row, data) == [row EXCEPT !.learned_neat = NULL]
Updated(row, data) ==
    LET Put(f, v) == IF data[f] # NULL THEN v ELSE row[f]
        PutStr(f, v) == IF data[f] # "" THEN v ELSE row[f]
    IN  [row EXCEPT !.calorie_goal = Put("calorie_goal", data.calorie_goal),
                    !.protein_goal = Put("protein_goal", data.protein_goal),
                    !.carbs_goal = Put("carbs_goal", data.carbs_goal),
                    !.fat_goal = Put("fat_goal", data.fat_goal),
                    !.age = Put("age", data.age),
                    !.sex = PutStr("sex", Upper(data.sex)),
                    !.height_cm = Put("height_cm", data.height_cm),
                    !.activity_level = PutStr("activity_level",
                                               data.activity_level),
                    !.goal_type = PutStr("goal_type", data.goal_type)]

\* update_profile: each provided field is stored
update_profile(u, data) ==
        /\ users' = [users EXCEPT ![u] = Updated(@, data)]
        /\ resp' = NoResp
        /\ UNCHANGED <<clock, recals, insights, sweep, inflight, eng, store>>

\* calculate_goals: 422 unless age, sex, height_cm and activity_level are
\* known; else the resolved fields and the computed goals are stored.
\* latest is the weight of the newest weight entry, NULL if there is none.
calculate_goals(u, data, latest) ==
    LET age == Or(data.age, users[u].age)
        sex == Upper(OrStr(data.sex, users[u].sex))
        height_cm == Or(data.height_cm, users[u].height_cm)
        activity_level == OrStr(data.activity_level, users[u].activity_level)
        goal_type == OrStr(data.goal_type, "maintain")
        weight_lbs == IF latest # NULL THEN latest ELSE 154
        goals == calculate_nutrition_goals(weight_lbs, height_cm, age, sex,
                                           activity_level, goal_type)
        complete == /\ Truthy(age) /\ sex # ""
                    /\ Truthy(height_cm) /\ activity_level # ""
    IN  /\ users' = IF ~complete THEN users
                    ELSE [users EXCEPT ![u] =
                           [@ EXCEPT !.age = age, !.sex = sex,
                                     !.height_cm = height_cm,
                                     !.activity_level = activity_level,
                                     !.goal_type = goal_type,
                                     !.calorie_goal = goals.calorie_goal,
                                     !.protein_goal = goals.protein_goal,
                                     !.carbs_goal = goals.carbs_goal,
                                     !.fat_goal = goals.fat_goal]]
        /\ resp' = NoResp
        /\ UNCHANGED <<clock, recals, insights, sweep, inflight, eng, store>>

-----------------------------------------------------------------------------
(* /ani/auto-recalibrate                                                   *)

\* db.query(User).filter(User.is_premium == 1).all(): the query names no
\* order, so the rows come in any order
Orders(S) ==
    {s \in [1 .. Cardinality(S) -> S] :
         \A i, j \in 1 .. Cardinality(S) : s[i] = s[j] => i = j}

Premium(us) == {u \in Users : us[u].is_premium = 1}

\* the loop's state: the database, the four counters, and for each user how
\* the loop left them ("free" for a user the query did not return)
SweepState(db) ==
    [db |-> db, processed |-> 0, recalibrated |-> 0, skipped |-> 0,
     errors |-> 0, outcome |-> [u \in Users |-> "free"], ties |-> TRUE]

\* (SkippedUncounted leaves the counter as it is)
SkippedUncounted(st, u, outcome, found) ==
    [st EXCEPT !.outcome[u] = outcome, !.ties = @ /\ ~found.float_up]
\* skipped += 1; continue
Skipped(st, u, outcome, found) ==
    [st EXCEPT !.skipped = @ + 1, !.outcome[u] = outcome,
               !.ties = @ /\ ~found.float_up]

\* one iteration of the loop, try and except included
SweepUser(st, u, now, found) ==
    LET row == st.db.users[u]
        last == LastRecal(st.db.recals, u)
        logs == PeriodLogs(FoodTable(found, now), now)
        Ran(flushed, ran) ==
          IF found.fault # "none"
          THEN [ran EXCEPT !.errors = @ + 1, !.outcome[u] = "error",
                           !.db = Rollback(st.db, flushed)]
          ELSE [ran EXCEPT !.recalibrated = @ + 1,
                           !.outcome[u] = "recalibrated",
                           !.db = Commit(st.db, flushed)]
    IN  IF NotDue(last, now)
        THEN Skipped(st, u, "not_due", found)
        ELSE IF NoGoals(row)
        THEN Skipped(st, u, "no_goals", found)
        ELSE IF SweepTooFewDays(LoggedDays(logs))
        THEN Skipped([st EXCEPT !.processed = @ + 1], u, "few_days", found)
        ELSE Ran(Run(st.db, u, row, now, now, found, "sweep"),
                 [st EXCEPT !.processed = @ + 1,
                            !.ties = @ /\ (found.float_up =>
                                               RunTie(row, now, found))])

RECURSIVE SweepFrom(_, _, _, _)
\* for user in eligible_users, from position i of the order on
SweepFrom(st, order, now, found) ==
    IF order = <<>> THEN st
    ELSE SweepFrom(SweepUser(st, Head(order), now, found[Head(order)]),
                   Tail(order), now, found)

SweepResponse(st, order) ==
    [op |-> "auto", status |-> 200, order |-> order,
     processed |-> st.processed, recalibrated |-> st.recalibrated,
     skipped |-> st.skipped, errors |-> st.errors, outcome |-> st.outcome]

\* the whole sweep, served without any other request in between
ani_auto_recalibrate(order, found) ==
    LET Ended(st) ==
          /\ st.ties
          /\ \A u \in Users \ Premium(users) : found[u] = NoLogs
          /\ users' = st.db.users
          /\ recals' = st.db.recals
          /\ insights' = st.db.insights
          /\ resp' = SweepResponse(st, order)
          /\ UNCHANGED <<clock, sweep, inflight, eng, store>>
    IN  Ended(SweepFrom(SweepState(Database), order, clock, found))

-----------------------------------------------------------------------------
(* Requests served one after the other                                     *)

\* time passes
Tick ==
    /\ clock < MaxClock
    /\ clock' = clock + 1
    /\ resp' = NoResp
    /\ UNCHANGED <<users, recals, insights, sweep, inflight, eng, store>>

RECURSIVE Enrolled(_, _)
\* the database after each user of S has saved FullProfile and has then
\* recalibrated on demand at time 0
Enrolled(db, S) ==
    IF S = {} THEN db
    ELSE LET u == CHOOSE v \in S : TRUE
             row == Updated(db.users[u], FullProfile)
             set == [db EXCEPT !.users[u] = row]
         IN  Enrolled(Finish(set, u, row, 0, 0, Regular, "on_demand").db,
                      S \ {u})

\* The callers have registered (is_premium is set to 0 outside the API
\* only); the other users are enrolled.
Init ==
    /\ clock = 0
    /\ \E p \in [Callers -> {0, 1}] :
           LET Starts(db) == /\ users = db.users
                             /\ recals = db.recals
                             /\ insights = db.insights
           IN  Starts(Enrolled([users |-> [u \in Users |->
                                   NewUser(IF u \in Callers THEN p[u] ELSE 1)],
                                recals |-> {}, insights |-> {}],
                               Users \ Callers))
    /\ sweep = NoSweep
    /\ inflight = {}
    /\ resp = NoResp
    /\ store = NoStore
    /\ eng = Idle

Next ==
    \/ Tick
    \/ \E u \in Callers, data \in ProfileUpdates : update_profile(u, data)
    \/ \E u \in Callers, data \in ProfileUpdates, latest \in {NULL, 154} :
           calculate_goals(u, data, latest)
    \/ \E u \in Callers, found \in Findings : ani_recalibrate(u, found)
    \/ \E order \in Orders(Premium(users)), found \in [Users -> SweepFindings] :
           ani_auto_recalibrate(order, found)

Spec == Init /\ [][Next]_vars

-----------------------------------------------------------------------------
(* Claims about the engine                                                 *)

GoalFields == {"calorie_goal", "protein_goal", "carbs_goal", "fat_goal"}

\* C1 (clamp invariant): after every run of run_recalibration, each of the
\* four new goals differs from the previous goal by at most
\* round(prev * 0.10), except that the calorie goal may sit at the 1200 floor.
ClampInvariant ==
    eng.runs > 0 =>
        \A f \in GoalFields :
            \/ Abs(eng.out.new_goals[f] - eng.goals[f]) <= PyRound(eng.goals[f], 10)
            \/ f = "calorie_goal" /\ eng.out.new_goals[f] = 1200

\* value (tenths of a kcal) >= num / den kcal, and <=
TenthsAtLeast(value, q) == value * q.den >= 10 * q.num
TenthsAtMost(value, q) == value * q.den <= 10 * q.num

\* num / den kcal cut down, and raised, to a whole number of tenths
TenthsFloor(q) == (10 * q.num) \div q.den
TenthsCeil(q) == 0 - ((0 - 10 * q.num) \div q.den)

\* the prior of two consecutive learns lies between their calculated values
PriorInRange ==
    /\ Len(eng.log) >= 2
    /\ LET p == eng.log[1].previous_neat
           c1 == eng.log[1].calculated_neat
           c2 == eng.log[2].calculated_neat
       IN  /\ \/ p.num * c1.den >= c1.num * p.den
              \/ p.num * c2.den >= c2.num * p.den
           /\ \/ p.num * c1.den <= c1.num * p.den
              \/ p.num * c2.den <= c2.num * p.den

\* C6 as stated (NEAT smoothing bound): after two consecutive learns from a
\* prior within [min(c1,c2), max(c1,c2)], the persisted learned_neat, rounded
\* to one decimal, lies within [min(c1,c2), max(c1,c2)].
NeatWithinRange ==
    PriorInRange =>
        LET v == eng.log[2].learned_neat
            c1 == eng.log[1].calculated_neat
            c2 == eng.log[2].calculated_neat
        IN  /\ TenthsAtLeast(v, c1) \/ TenthsAtLeast(v, c2)
            /\ TenthsAtMost(v, c1) \/ TenthsAtMost(v, c2)

\* C6 amended (NEAT smoothing bound): after two consecutive learns from a
\* prior within [min(c1,c2), max(c1,c2)], the persisted learned_neat lies
\* between min(c1,c2) rounded down to one decimal and max(c1,c2) rounded up
\* to one decimal, so it leaves [min(c1,c2), max(c1,c2)] by less than 0.1 kcal.
NeatWithinRoundedRange ==
    PriorInRange =>
        LET v == eng.log[2].learned_neat
            c1 == eng.log[1].calculated_neat
            c2 == eng.log[2].calculated_neat
        IN  /\ v >= Min(TenthsFloor(c1), TenthsFloor(c2))
            /\ v <= Max(TenthsCeil(c1), TenthsCeil(c2))

\* two learns with different calculated values and a prior strictly between
NeatTwoLearns ==
    /\ PriorInRange
    /\ LET p == eng.log[1].previous_neat
           c1 == eng.log[1].calculated_neat
           c2 == eng.log[2].calculated_neat
       IN  /\ c1.num * c2.den # c2.num * c1.den
           /\ p.num * c1.den # c1.num * p.den
           /\ p.num * c2.den # c2.num * p.den

-----------------------------------------------------------------------------
(* Claims about the schedulers, requests served one after the other        *)

RecalsOf(rs, u) == {r \in rs : r.user_id = u}

\* C2 (cooldown): with the triggers served one after the other, any two
\* records of the same user have created_at values at least 6 whole days
\* apart.
CooldownHolds ==
    \A r1, r2 \in recals :
        /\ r1.user_id = r2.user_id
        /\ r1.id # r2.id
        /\ r1.created_at <= r2.created_at
        => r2.created_at - r1.created_at >= 6 * TicksPerDay

\* a user with two records, the second one made on demand exactly 6 days
\* after the first
CooldownSecondRecord ==
    \E r1, r2 \in recals :
        /\ r1.user_id = r2.user_id
        /\ r2.by = "on_demand"
        /\ r2.created_at - r1.created_at = 6 * TicksPerDay

\* C3 (minimum-data gate): every persisted record comes from a run whose
\* food logs cover at least 5 distinct days, on demand and in the sweep.
MinimumDataHolds == \A r \in recals : r.days_logged >= 5

\* records of both schedulers made from exactly 5 logged days
MinimumDataRecords ==
    /\ \E r \in recals : r.by = "on_demand" /\ r.days_logged = 5
    /\ \E r \in recals : r.by = "sweep" /\ r.days_logged = 5

\* C4 (on-demand precondition failures change nothing): a request of a user
\* who is not premium, lacks a calorie or protein goal, has a record less
\* than 6 days old, has a first food log less than 7 days old or has fewer
\* than 5 logged days ends in a 400 or 403 and leaves users, records and
\* insights as they were.
RejectionChangesNothing ==
    [][resp'.op = "recalibrate" =>
          LET u == resp'.user
              failed ==
                  \/ users[u].is_premium \in {0, NULL}
                  \/ users[u].calorie_goal \in {0, NULL}
                  \/ users[u].protein_goal \in {0, NULL}
                  \/ \E r \in RecalsOf(recals, u) :
                         clock - r.created_at < 6 * TicksPerDay
                  \/ resp'.detail \in {"history", "days"}
          IN  failed => /\ resp'.status \in {400, 403}
                        /\ UNCHANGED <<users, recals, insights>>]_vars

\* a request rejected for its cooldown while the user has learned a NEAT
RejectedInCooldown ==
    /\ resp.op = "recalibrate"
    /\ resp.detail = "cooldown"
    /\ users[resp.user].learned_neat # NULL

\* the values round(n / d) can take in floating point: the nearest integer,
\* and either neighbour where n / d is halfway between two integers
Rounded(n, d) ==
    IF 2 * (n % d) = d THEN {n \div d, n \div d + 1}
    ELSE IF 2 * (n % d) < d THEN {n \div d} ELSE {n \div d + 1}

\* C5 (learned_neat is only smoothed): every change of a set learned_neat v
\* to v' comes with a record of a run that learned from a calculated_neat
\* c > 800, and v' = round(0.7 * v + 0.3 * c, 1); no step clears it.
NeatOnlySmoothed ==
    [][\A u \in Users :
          LET v == users[u].learned_neat
              w == users'[u].learned_neat
          IN  v # NULL /\ w # v =>
                  \E r \in RecalsOf(recals', u) \ recals :
                      LET c == r.calculated_neat
                      IN  /\ r.learned
                          /\ c.num > 800 * c.den
                          /\ w \in Rounded(7 * v * c.den + 30 * c.num,
                                           10 * c.den)]_vars

\* a caller who has learned twice and whose goals are the calculator's
NeatSmoothedTwice ==
    \E u \in Callers :
        /\ Cardinality({r \in RecalsOf(recals, u) : r.learned}) = 2
        /\ users[u].calorie_goal # 2000

\* C7 (atomic writes per run): a changed learned_neat comes with exactly one
\* new record of that user, a successful run creates exactly one record, a
\* failed one persists nothing, and every new insight references a record
\* created in the same step for the same user; records are never changed.
WritesAreAtomic ==
    [][LET new == recals' \ recals
           notes == insights' \ insights
       IN  /\ recals \subseteq recals'
           /\ \A u \in Users :
                  /\ Cardinality(RecalsOf(new, u)) <= 1
                  /\ users'[u].learned_neat # users[u].learned_neat
                     => Cardinality(RecalsOf(new, u)) = 1
           /\ resp'.op = "recalibrate" /\ resp'.status = 200
              => new # {} /\ new = RecalsOf(new, resp'.user)
           /\ resp'.op = "recalibrate" /\ resp'.status # 200
              => new = {} /\ notes = {} /\ users' = users
           /\ resp'.op = "auto" => Cardinality(new) = resp'.recalibrated
           /\ \A i \in notes :
                  \E r \in new : /\ r.id = i.recalibration_id
                                 /\ r.user_id = i.user_id]_vars

\* an on-demand run that has just committed a NEAT update, a record and
\* insights
AtomicRunCommitted ==
    /\ resp.op = "recalibrate"
    /\ resp.status = 200
    /\ \E r \in RecalsOf(recals, resp.user) :
           /\ r.learned
           /\ r.created_at = clock
           /\ \E i \in insights : i.recalibration_id = r.id

\* a user the sweep has to recalibrate if the logs allow: premium, with
\* goals, with a record, and every record at least 7 whole days old
Due(u) ==
    /\ users[u].is_premium = 1
    /\ users[u].calorie_goal \notin {0, NULL}
    /\ users[u].protein_goal \notin {0, NULL}
    /\ RecalsOf(recals, u) # {}
    /\ \A r \in RecalsOf(recals, u) : clock - r.created_at >= 7 * TicksPerDay

\* C8 (sweep fault isolation): a user whose processing raised is left as
\* before and counted as an error; committed records stay; every due user
\* is still processed, and each user the sweep reports as recalibrated has
\* exactly one new record.
SweepIsolatesFaults ==
    [][resp'.op = "auto" =>
          LET new == recals' \ recals
              notes == insights' \ insights
              out == resp'.outcome
          IN  /\ recals \subseteq recals'
              /\ insights \subseteq insights'
              /\ resp'.errors = Cardinality({u \in Users : out[u] = "error"})
              /\ \A u \in Users :
                     /\ out[u] = "error" =>
                            /\ users'[u] = users[u]
                            /\ RecalsOf(new, u) = {}
                            /\ {i \in notes : i.user_id = u} = {}
                     /\ Due(u) => out[u] \in {"few_days", "error", "recalibrated"}
                     /\ out[u] = "recalibrated" =>
                            Cardinality(RecalsOf(new, u)) = 1]_vars

\* a sweep in which the first user failed and the next one was recalibrated
SweepWentOnAfterFault ==
    /\ resp.op = "auto"
    /\ Len(resp.order) = 2
    /\ resp.outcome[resp.order[1]] = "error"
    /\ resp.outcome[resp.order[2]] = "recalibrated"

\* C9 (sweep eligibility): the sweep creates a record for a user only if
\* the user is premium, has calorie and protein goals, has a latest record
\* at least 7 whole days old and at least 5 logged days; a user's first
\* record is never made by the sweep.
SweepOnlyEligible ==
    [][/\ resp'.op = "auto" =>
              \A r \in recals' \ recals :
                  /\ r.by = "sweep"
                  /\ Due(r.user_id)
                  /\ r.days_logged >= 5
       /\ \A r \in recals' :
              r.by = "sweep" =>
                  \E q \in RecalsOf(recals', r.user_id) :
                      q.created_at < r.created_at]_vars

\* a caller recalibrated by the sweep
SweepRecalibratedCaller ==
    \E r \in recals : r.by = "sweep" /\ r.user_id \in Callers

-----------------------------------------------------------------------------
(* Claims about the engine's result                                        *)

\* C12 (calorie floor): the calorie_goal that run_recalibration returns is at
\* least 1200 for every input, and it is exactly 1200 when the previous
\* goal plus 10% lies below 1200.
CalorieFloor ==
    eng.runs >= 1 =>
        /\ eng.out.new_goals.calorie_goal >= 1200
        /\ (11 * eng.goals.calorie_goal < 12000
               => eng.out.new_goals.calorie_goal = 1200)

\* a run on a previous goal of 1000 kcal has returned the floor
FloorWins ==
    /\ eng.runs = 1
    /\ eng.goals.calorie_goal = 1000
    /\ eng.out.new_goals.calorie_goal = 1200

\* the multiplier of each unconditional row of the matrix, in percent
MatrixRows ==
    {<<"lose", "too_fast", 105>>, <<"lose", "on_track", 100>>,
     <<"gain", "on_track", 100>>, <<"gain", "too_slow", 105>>,
     <<"gain", "too_fast", 97>>, <<"gain", "wrong_direction", 107>>,
     <<"maintain", "on_track", 100>>, <<"maintain", "too_fast", 107>>,
     <<"maintain", "too_slow", 95>>, <<"lose", "no_data", 100>>,
     <<"gain", "no_data", 100>>, <<"maintain", "no_data", 100>>}

\* the types of the insights in a sequence of insights
InsightTypes(ins) == {ins[i].type : i \in 1 .. Len(ins)}

\* C13 (decision matrix): the weight-trend step multiplies the calorie goal
\* by the factor of its (goal_type, classification) row, emits a tip urging
\* weigh-ins without weight data, a warning on lose/too_fast and
\* gain/too_fast, an achievement on every on_track row, and leaves protein
\* alone: without a weekend protein dip the protein goal comes back unchanged.
DecisionMatrix ==
    eng.runs >= 1 =>
        LET g == IF eng.user.goal_type = "" THEN "maintain"
                 ELSE eng.user.goal_type
            c == eng.out.analysis.weight_trend_signal
            step == eng.out.weight_step
        IN  /\ \A row \in MatrixRows :
                   row[1] = g /\ row[2] = c => step.mult = row[3]
            /\ c = "no_data" =>
                   step.insights =
                       <<[type |-> "tip",
                          title |-> "Weigh in to unlock smarter adjustments"]>>
            /\ c = "too_fast" /\ g \in {"lose", "gain"} =>
                   InsightTypes(step.insights) = {"warning"}
            /\ c = "on_track" => InsightTypes(step.insights) = {"achievement"}
            /\ "weekend_protein_dip" \notin eng.out.analysis.patterns =>
                   eng.out.new_goals.protein_goal = eng.goals.protein_goal

\* a run has taken the gain/too_fast row, which trims and warns
MatrixRowTaken ==
    /\ eng.runs = 1
    /\ eng.user.goal_type = "gain"
    /\ eng.out.analysis.weight_trend_signal = "too_fast"
    /\ eng.out.weight_step.mult = 97

\* C14 (conditional cut rows): for goal_type lose, a too_slow trend
\* multiplies the calorie goal by 0.97 only if energy_balance_agrees is False
\* and leaves it alone if it is True or None; a wrong_direction trend
\* multiplies it by 0.95 only if energy_balance_agrees is False and
\* net_balance > 0, and leaves it alone otherwise.
ConditionalCuts ==
    eng.runs >= 1 /\ eng.user.goal_type = "lose" =>
        LET c == eng.out.analysis.weight_trend_signal
            agrees == eng.out.analysis.energy_balance_agrees
            nb == eng.out.net_balance
            mult == eng.out.weight_step.mult
        IN  /\ c = "too_slow" =>
                   mult = (IF agrees = "false" THEN 97 ELSE 100)
            /\ c = "wrong_direction" =>
                   mult = (IF agrees = "false" /\ nb.known /\ nb.num > 0
                           THEN 95 ELSE 100)

\* a run has cut the calories of a wrong_direction week by 5%
ConditionalCutTaken ==
    /\ eng.runs = 1
    /\ eng.user.goal_type = "lose"
    /\ eng.out.analysis.weight_trend_signal = "wrong_direction"
    /\ eng.out.weight_step.mult = 95

\* C15 (trend classification): a known weight delta gets exactly the class
\* of the table.  lose: below -2 too_fast, -2 to -0.5 on_track, above -0.5
\* up to 0 too_slow, above 0 wrong_direction.  gain: above 1 too_fast, 0.25
\* to 1 on_track, above 0 and below 0.25 too_slow, 0 or below
\* wrong_direction.  maintain, unset or unrecognised: below -1 too_fast,
\* above 1 too_slow, else on_track.
ClassificationTable ==
    eng.runs >= 1 /\ eng.out.analysis.weight_known =>
        LET g == eng.user.goal_type
            n == eng.out.analysis.weight_delta.num
            t == eng.out.analysis.weight_delta.den
            c == eng.out.analysis.weight_trend_signal
        IN  /\ t > 0
            /\ g = "lose" =>
                   c = (IF n < (0 - 200) * t THEN "too_fast"
                        ELSE IF n <= (0 - 50) * t THEN "on_track"
                        ELSE IF n <= 0 THEN "too_slow"
                        ELSE "wrong_direction")
            /\ g = "gain" =>
                   c = (IF n > 100 * t THEN "too_fast"
                        ELSE IF n >= 25 * t THEN "on_track"
                        ELSE IF n > 0 THEN "too_slow"
                        ELSE "wrong_direction")
            /\ g \notin {"lose", "gain"} =>
                   c = (IF n < (0 - 100) * t THEN "too_fast"
                        ELSE IF n > 100 * t THEN "too_slow"
                        ELSE "on_track")

\* a user whose goal type the code does not know, gaining 1.01 lbs a week,
\* has been classified by the maintain row
UnrecognisedGoalClassified ==
    /\ eng.runs = 1
    /\ eng.user.goal_type = "recomp"
    /\ eng.out.analysis.weight_delta.num = 101 * eng.out.analysis.weight_delta.den
    /\ eng.out.analysis.weight_trend_signal = "too_slow"

\* C16 (deterministic no-op): for a maintain user with a weight delta
\* inside (-0.5, 0.5), workout adherence of at least 0.8, no weekend protein
\* dip and an average intake within 15% of the calorie goal, the new goals
\* equal the previous goals in all four fields and the reasoning is not the
\* default sentence.
NoOpKeepsGoals ==
    LET a == eng.out.analysis
    IN  /\ eng.runs >= 1
        /\ eng.user.goal_type = "maintain"
        /\ a.weight_known
        /\ Abs(a.weight_delta.num) < 50 * a.weight_delta.den
        /\ 5 * a.completed_sessions >= 4 * Max(a.total_planned, 1)
        /\ "weekend_protein_dip" \notin a.patterns
        /\ 100 * Abs(a.avg_calories - eng.goals.calorie_goal)
               <= 15 * eng.goals.calorie_goal
        => /\ eng.out.new_goals = eng.goals
           /\ eng.out.reasoning # <<"targets_look_good">>

\* the entries of a window spread more than 2.0 lbs around their mean:
\* sum((n * x - sum(x))^2) > 4 * n^2 * (n - 1)
Scattered(entries) ==
    LET n == Cardinality(entries)
        s == SumOver(entries, [e \in entries |-> e.weight_lbs])
    IN  /\ n >= 2
        /\ SumOver(entries, [e \in entries |->
                       (n * e.weight_lbs - s) * (n * e.weight_lbs - s)])
               > 4 * n * n * (n - 1)

\* the windows other than the 7-day one that trend_windows reports
LongWindows(a) == {i \in 2..4 : a.trend_windows[i] # NoWindow}

\* C17: when the weights of the 7-day window have a standard deviation above
\* 2.0 lbs, the 7-day window does not contribute: "7d" is not in
\* windows_used, trend_windows["7d"].noisy is true, and the blended delta is
\* the average of the available 30-, 60- and 90-day deltas under their base
\* weights 0.50, 0.25 and 0.10, renormalised.
NoisyWindowExcluded ==
    LET a == eng.out.analysis
        long == LongWindows(a)
        base == <<15, 50, 25, 10>>
    IN  eng.runs >= 1 /\ Scattered(Within(eng.weights, 7)) =>
            /\ "7d" \notin a.windows_used
            /\ a.trend_windows[1] # NoWindow
            /\ a.trend_windows[1].noisy
            /\ a.windows_used = {WindowLabels[i] : i \in long}
            /\ a.weight_known = (long # {})
            /\ long # {} =>
                   a.weight_delta.num * SumOver(long, [i \in long |-> base[i]])
                 = a.weight_delta.den
                   * SumOver(long, [i \in long |->
                                 a.trend_windows[i].delta * base[i]])

\* a run has blended the three long windows of a user whose 7-day window
\* was noisy
NoisyWindowSeen ==
    /\ eng.runs >= 1
    /\ Scattered(Within(eng.weights, 7))
    /\ LongWindows(eng.out.analysis) = {2, 3, 4}
    /\ eng.out.analysis.signal_used = "multi_window"

\* the windows of the table with enough entries: 2 of the last 7 days, 3
\* of the last 30, 4 of the last 60, 5 of the last 90
Available(weights) ==
    {i \in 1..4 : Cardinality(Within(weights, <<7, 30, 60, 90>>[i]))
                      >= <<2, 3, 4, 5>>[i]}

\* the available windows without a scattered 7-day one
Contributing(weights) ==
    Available(weights) \ {i \in {1} : Scattered(Within(weights, 7))}

\* C18: signal_used is multi_window exactly when two or more windows
\* contribute to the blend, weight_<window> exactly when one does and
\* calories_only exactly when none does; weight_trend_signal is no_data and
\* weight_delta is None exactly in the last case; a window is available with
\* at least 2 entries for 7d, 3 for 30d, 4 for 60d and 5 for 90d.
SignalProvenance ==
    LET a == eng.out.analysis
        c == Contributing(eng.weights)
    IN  eng.runs >= 1 =>
            /\ \A i \in 1..4 :
                   (a.trend_windows[i] # NoWindow) = (i \in Available(eng.weights))
            /\ a.windows_used = {WindowLabels[i] : i \in c}
            /\ (a.signal_used = "multi_window") = (Cardinality(c) >= 2)
            /\ \A i \in 1..4 :
                   (a.signal_used = <<"weight_7d", "weight_30d", "weight_60d",
                                      "weight_90d">>[i]) = (c = {i})
            /\ (a.signal_used = "calories_only") = (c = {})
            /\ (a.weight_trend_signal = "no_data") = (c = {})
            /\ a.weight_known = (c # {})

\* a run has read the trend from the 60-day window alone, four entries
\* being too few for the 90-day one
SingleWindowUsed ==
    /\ eng.runs >= 1
    /\ eng.out.analysis.signal_used = "weight_60d"
    /\ Cardinality(Within(eng.weights, 90)) = 4

\* C19: a run leaves user.learned_neat unchanged unless the weight delta is
\* known, at least 5 days are logged, signal_used is weight_7d, weight_30d
\* or multi_window, and calculated_neat = avg_cal - weight_delta / 7 * 3500
\* exceeds 800; a run whose only contributing window is the 60-day or the
\* 90-day one never changes it.
NeatLearningGate ==
    [][LET a == eng'.out.analysis
       IN  eng'.runs = eng.runs + 1
           /\ eng'.user.learned_neat # eng.user.learned_neat =>
               /\ a.weight_known
               /\ a.days_logged >= 5
               /\ a.signal_used \in {"weight_7d", "weight_30d", "multi_window"}
               /\ a.avg_calories * a.weight_delta.den - 5 * a.weight_delta.num
                      > 800 * a.weight_delta.den
               /\ Contributing(eng.weights) \notin {{3}, {4}}]_vars

\* a run on a blend of several windows has changed the learned NEAT
NeatLearned ==
    /\ eng.runs >= 1
    /\ eng.user.learned_neat \notin {NULL, 21000}
    /\ eng.out.analysis.signal_used = "multi_window"

\* C20: for every combination of absent inputs (no weight entries in any
\* window, no anthropometrics and no learned NEAT, no health metrics, no
\* plan sessions, no persistence handle) run_recalibration returns a result,
\* and an absent signal changes nothing: without weight data the weight
\* step leaves the calories alone, without device expenditure there is no
\* expenditure nudge, and energy_balance_agrees is None whenever calories_out
\* or the weight delta is unavailable.
MissingSignalsDegrade ==
    LET a == eng.out.analysis
        measured == {i \in 1..Len(eng.health_metrics) :
                        eng.health_metrics[i] # NULL}
    IN  eng.runs >= 1 =>
            /\ \A f \in {"calorie_goal", "protein_goal", "carbs_goal", "fat_goal"} :
                   eng.out.new_goals[f] \in Nat
            /\ Contributing(eng.weights) = {} =>
                   /\ ~a.weight_known
                   /\ eng.out.weight_step.mult = 100
            /\ Cardinality(measured) < 3 => eng.out.expenditure_step = 0
            /\ ~a.calories_out_known \/ ~a.weight_known =>
                   a.energy_balance_agrees = "none"

\* a run with every optional input absent has returned the goals it was
\* given the calories of
NothingToGoOn ==
    /\ eng.runs >= 1
    /\ eng.weights = {}
    /\ eng.user.height_cm = NULL /\ eng.user.learned_neat = NULL
    /\ eng.health_metrics = <<>>
    /\ eng.plan_sessions = <<>>
    /\ ~eng.db
    /\ eng.out.analysis.days_logged = 0
    /\ ~eng.out.analysis.calories_out_known
    /\ eng.out.new_goals.calorie_goal = eng.goals.calorie_goal

-----------------------------------------------------------------------------
(* Claims about the goals from one record to the next                      *)

\* |b - a| <= 10% of a, in each of the four fields; a calorie goal of 1200
\* is the floor and is exempt
WithinTenPercent(a, b) ==
    \A f \in GoalFields :
        \/ 10 * Abs(b[f] - a[f]) <= a[f]
        \/ f = "calorie_goal" /\ b[f] = 1200

\* r is the newest of its user's records in rs
IsNewest(rs, r) == \A q \in rs : q.user_id = r.user_id => q.id <= r.id

\* C11 (bounded week-over-week movement): when a run adds record r2 for a
\* user whose newest record is r1, and the goals in the users row are what
\* they were when r1 was made (no profile edit in between), each new goal of
\* r2 is within 10% of the same new goal of r1, the floor of 1200 kcal apart.
WeekOverWeekBounded ==
    [][\A r2 \in recals' \ recals :
          \A r1 \in recals :
              /\ r1.user_id = r2.user_id
              /\ IsNewest(recals, r1)
              /\ r2.prev_goals = r1.prev_goals
              => WithinTenPercent(r1.new_goals, r2.new_goals)]_vars

-----------------------------------------------------------------------------
(* Claims about what the schedulers write and count                        *)

\* the four goal columns of a users row as they are stored
StoredGoals(row) ==
    <<row.calorie_goal, row.protein_goal, row.carbs_goal, row.fat_goal>>

\* C28: recalibration never writes the user's stored goals: neither
\* /ani/recalibrate nor the sweep changes calorie_goal, protein_goal,
\* carbs_goal or fat_goal of any users row (update_profile and
\* calculate_goals do), so the prev_ goals of every new record are the
\* profile goals of its user at the time of the run.
RecalibrationKeepsGoals ==
    [][/\ resp'.op \in {"recalibrate", "auto"} \/ recals' # recals =>
              \A u \in Users : StoredGoals(users'[u]) = StoredGoals(users[u])
       /\ \A r \in recals' \ recals :
              r.prev_goals = CurrentGoals(users[r.user_id])]_vars

\* a user has two records that start from the same profile goals, the first
\* of which proposed other goals
SameStartTwice ==
    \E r1, r2 \in recals :
        /\ r1.user_id = r2.user_id
        /\ r1.id < r2.id
        /\ r1.new_goals # r1.prev_goals
        /\ r2.prev_goals = r1.prev_goals
        /\ CurrentGoals(users[r1.user_id]) = r1.prev_goals

\* the premium users that the sweep's first two checks turn away: no
\* record yet or one younger than 7 days, or no goals
TurnedAway ==
    {u \in Premium(users) :
        NotDue(LastRecal(recals, u), clock) \/ NoGoals(users[u])}

\* C29: in one /ani/auto-recalibrate call every premium user increments
\* exactly one of recalibrated, skipped and errors, so their sum is the
\* number of premium users iterated; recalibrated is the number of records
\* the sweep committed; processed is recalibrated plus the errors and the
\* low-logging skips that came after the cooldown and goal checks.
SweepAccounting ==
    [][resp'.op = "auto" =>
          /\ Len(resp'.order) = Cardinality(Premium(users))
          /\ resp'.recalibrated + resp'.skipped + resp'.errors
                 = Len(resp'.order)
          /\ resp'.recalibrated = Cardinality(recals' \ recals)
          /\ \A r \in recals' \ recals : r.by = "sweep"
          /\ recals \subseteq recals'
          /\ resp'.skipped >= Cardinality(TurnedAway)
          /\ resp'.processed
                 = resp'.recalibrated + resp'.errors
                   + (resp'.skipped - Cardinality(TurnedAway))]_vars

\* a sweep over two premium users has recalibrated one of them and has
\* given up on the other after the two checks
SweepCountedBoth ==
    /\ resp.op = "auto"
    /\ Len(resp.order) = 2
    /\ resp.recalibrated = 1
    /\ resp.processed = 2

\* C30: the number of distinct logged days that a scheduler counts over
\* [now - 7 days, now) and stores as analysis.days_logged is at most 7, at
\* whatever time of day the trigger runs.
LoggedDaysOutOfSeven == \A r \in recals : r.days_logged <= 7

-----------------------------------------------------------------------------
(* Requests served concurrently: a handler's reads and its writes are      *)
(* separate steps, and every query sees what has been committed by then   *)

MaxInflight == 2

RaceFindings ==
    {Regular, Found(DaysAgo({1, 2, 3, 4, 5, 8}), Weighed, 154, FALSE, "flush")}

\* /ani/recalibrate from its start to its last check, at now = clock; a
\* request that passes holds the users row it has loaded
RecalibrateRead(n, u, found) ==
    LET reason == Gate(Database, u, clock, found)
    IN  /\ Cardinality(inflight) < MaxInflight
        /\ \A q \in inflight : q.n # n
        /\ inflight' = IF reason # "ok" THEN inflight
                       ELSE inflight \cup {[n |-> n, user |-> u, now |-> clock,
                                            row |-> users[u], found |-> found]}
        /\ resp' = IF reason # "ok" THEN Response(u, reason) ELSE NoResp
        /\ UNCHANGED <<clock, users, recals, insights, sweep, eng, store>>

\* /ani/recalibrate from run_recalibration to its response; created_at is
\* the time of the flush
RecalibrateWrite(q) ==
    LET Ended(out) ==
          /\ users' = out.db.users
          /\ recals' = out.db.recals
          /\ insights' = out.db.insights
          /\ inflight' = inflight \ {q}
          /\ resp' = Response(q.user, out.reason)
          /\ UNCHANGED <<clock, sweep, eng, store>>
    IN  Ended(Finish(Database, q.user, q.row, q.now, clock, q.found,
                     "on_demand"))

NoRead == [user |-> 0]

\* /ani/auto-recalibrate up to the loop: now, the premium users as loaded
SweepStart(order) ==
    /\ ~sweep.active
    /\ sweep' = [active |-> TRUE, now |-> clock, order |-> order, at |-> 1,
                 loaded |-> users, expired |-> FALSE, reading |-> NoRead,
                 st |-> SweepState(Database)]
    /\ resp' = NoResp
    /\ UNCHANGED <<clock, users, recals, insights, inflight, eng, store>>

\* one iteration from its start to its last check.  The loaded users rows
\* expire with the session's first commit or rollback and are read again.
SweepRead(found) ==
    LET u == sweep.order[sweep.at]
        row == IF sweep.expired THEN users[u] ELSE sweep.loaded[u]
        logs == PeriodLogs(FoodTable(found, sweep.now), sweep.now)
        skip(why) == [sweep EXCEPT !.at = @ + 1,
                                   !.st.skipped = @ + 1,
                                   !.st.outcome[u] = why]
    IN  /\ sweep.active
        /\ sweep.reading = NoRead
        /\ sweep.at <= Len(sweep.order)
        /\ sweep' =
             IF NotDue(LastRecal(recals, u), sweep.now) THEN skip("not_due")
             ELSE IF NoGoals(row) THEN skip("no_goals")
             ELSE IF SweepTooFewDays(LoggedDays(logs))
             THEN [skip("few_days") EXCEPT !.st.processed = @ + 1]
             ELSE [sweep EXCEPT !.st.processed = @ + 1,
                                !.reading = [user |-> u, row |-> row,
                                             found |-> found]]
        /\ resp' = NoResp
        /\ UNCHANGED <<clock, users, recals, insights, inflight, eng, store>>

\* the rest of the iteration: run_recalibration, the writes, and the commit
\* or the except branch
SweepWrite ==
    LET q == sweep.reading
        failed == q.found.fault # "none"
        Ended(flushed) == IF failed THEN Rollback(Database, flushed)
                          ELSE Commit(Database, flushed)
        Saved(db) == /\ users' = db.users
                     /\ recals' = db.recals
                     /\ insights' = db.insights
    IN  /\ sweep.active
        /\ q # NoRead
        /\ Saved(Ended(Run(Database, q.user, q.row, sweep.now, clock, q.found,
                           "sweep")))
        /\ sweep' = [sweep EXCEPT
                       !.at = @ + 1, !.reading = NoRead, !.expired = TRUE,
                       !.st.errors = IF failed THEN @ + 1 ELSE @,
                       !.st.recalibrated = IF failed THEN @ ELSE @ + 1,
                       !.st.outcome[q.user] = IF failed THEN "error"
                                              ELSE "recalibrated"]
        /\ resp' = NoResp
        /\ UNCHANGED <<clock, inflight, eng, store>>

\* the loop is over: the response with the counters
SweepEnd ==
    /\ sweep.active
    /\ sweep.at > Len(sweep.order)
    /\ sweep' = NoSweep
    /\ resp' = SweepResponse(sweep.st, sweep.order)
    /\ UNCHANGED <<clock, users, recals, insights, inflight, eng, store>>

\* every user is enrolled
RaceInit ==
    /\ clock = 0
    /\ LET Starts(db) == /\ users = db.users
                         /\ recals = db.recals
                         /\ insights = db.insights
       IN  Starts(Enrolled([users |-> [u \in Users |-> NewUser(1)],
                           recals |-> {}, insights |-> {}], Users))
    /\ sweep = NoSweep
    /\ inflight = {}
    /\ resp = NoResp
    /\ store = NoStore
    /\ eng = Idle

RaceNext ==
    \/ Tick
    \/ \E n \in 1 .. MaxInflight, u \in Callers, found \in RaceFindings :
           RecalibrateRead(n, u, found)
    \/ \E q \in inflight : RecalibrateWrite(q)
    \/ \E order \in Orders(Premium(users)) : SweepStart(order)
    \/ \E found \in RaceFindings : SweepRead(found)
    \/ SweepWrite
    \/ SweepEnd

SpecRace == RaceInit /\ [][RaceNext]_vars

-----------------------------------------------------------------------------
(* Claims about concurrent requests                                        *)

\* C10 (cooldown race): two records of one user created less than 6 days
\* apart are reachable, and they come only from triggers that overlap: the
\* trigger that committed second took its now before the first committed.
CloseRecordsOverlap ==
    \A r1, r2 \in recals :
        /\ r1.user_id = r2.user_id
        /\ r1.id # r2.id
        /\ r1.created_at <= r2.created_at
        /\ r2.created_at - r1.created_at < 6 * TicksPerDay
        => r2.period_end <= r1.created_at

\* an on-demand request and the sweep have both recalibrated a user within
\* 6 days
DoubleRun ==
    \E r1, r2 \in recals :
        /\ r1.user_id = r2.user_id
        /\ r1.by = "on_demand"
        /\ r2.by = "sweep"
        /\ r2.created_at - r1.created_at < 6 * TicksPerDay
        /\ r1.created_at - r2.created_at < 6 * TicksPerDay

\* two on-demand requests have both recalibrated a user within 6 days
DoubleRunOnDemand ==
    \E r1, r2 \in recals :
        /\ r1.user_id = r2.user_id
        /\ r1.id # r2.id
        /\ r1.by = "on_demand"
        /\ r2.by = "on_demand"
        /\ r1.created_at <= r2.created_at
        /\ r2.created_at - r1.created_at < 6 * TicksPerDay


-----------------------------------------------------------------------------
(* The store: burn logs and the daily health metrics.  A request works in  *)
(* a session made with autoflush=False: a query sees the rows that have    *)
(* been flushed, not the objects that were added or changed since          *)

MaxBurnLogs == 2
MaxMetrics == 2

\* tz_offset_minutes, the same for every request, in ticks
TzOffset == 1

\* (dt + timedelta(minutes=tz_offset_minutes)).strftime("%Y-%m-%d")
LocalDate(dt) == (dt + TzOffset) \div TicksPerDay

\* autoincrement primary key of a table
NextRowId(rows) ==
    IF rows = {} THEN 1
    ELSE 1 + CHOOSE i \in {r.id : r \in rows} : \A r \in rows : r.id <= i

BurnLogRow(id, u, timestamp, calories_burned, source, external_id, sid) ==
    [id |-> id, user_id |-> u, timestamp |-> timestamp,
     calories_burned |-> calories_burned, source |-> source,
     external_id |-> external_id, plan_session_id |-> sid]

HealthMetricRow(id, u, date, total_expenditure, active_calories, source) ==
    [id |-> id, user_id |-> u, date |-> date,
     total_expenditure |-> total_expenditure,
     active_calories |-> active_calories, source |-> source]

\* the session of a request: the tables as its queries see them, and the
\* HealthMetric objects it has added and not flushed
OpenSession(st) ==
    [burn_logs |-> st.burn_logs, health_metrics |-> st.health_metrics,
     added |-> <<>>]

\* .first() of a query that names no order: the row whose id comes first in
\* order, a sequence of all ids
First(rows, order) ==
    CHOOSE r \in rows :
        \A o \in rows :
            (CHOOSE i \in 1..Len(order) : order[i] = r.id)
                <= (CHOOSE i \in 1..Len(order) : order[i] = o.id)

MetricIds == 1 .. MaxMetrics

\* func.coalesce(func.sum(BurnLog.calories_burned), 0.0) over the user's
\* rows of the local date of dt
BurnTotal(burn_logs, u, dt) ==
    LET rows == {b \in burn_logs :
                    b.user_id = u /\ LocalDate(b.timestamp) = LocalDate(dt)}
    IN  SumOver(rows, [b \in rows |-> b.calories_burned])

\* the user's HealthMetric rows of a date that a query finds
MetricsOf(health_metrics, u, date) ==
    {m \in health_metrics : m.user_id = u /\ m.date = date}

\* _reaggregate_burn_for_date(db, user_id, dt, tz_offset_minutes)
Reaggregate(s, u, dt, order) ==
    LET Summed(total, existing) ==
          IF existing # {}
          THEN [s EXCEPT !.health_metrics =
                   (@ \ {First(existing, order)})
                   \cup {[First(existing, order) EXCEPT !.active_calories =
                             IF total > 0 THEN total ELSE NULL]}]
          ELSE IF total > 0
          THEN [s EXCEPT !.added =
                   Append(@, HealthMetricRow(NULL, u, LocalDate(dt), NULL,
                                             total, "burn_log"))]
          ELSE s
    IN  Summed(BurnTotal(s.burn_logs, u, dt),
               MetricsOf(s.health_metrics, u, LocalDate(dt)))

RECURSIVE Inserted(_, _)
\* the flush of the added objects, each with the next id
Inserted(rows, added) ==
    IF added = <<>> THEN rows
    ELSE Inserted(rows \cup {[Head(added) EXCEPT !.id = NextRowId(rows)]},
                  Tail(added))

\* db.commit(): the store with the session's two tables
Committed(st, s) ==
    [st EXCEPT !.burn_logs = s.burn_logs,
               !.health_metrics = Inserted(s.health_metrics, s.added)]

\* the response of a store handler
Reply(op, u, status, detail) ==
    [op |-> op, user |-> u, status |-> status, detail |-> detail]

\* the rest of the state, which the store handlers leave alone
StoreFrame == UNCHANGED <<clock, users, recals, insights, sweep, inflight, eng>>

\* POST /burn-logs
create_burn_log(u, calories_burned, order) ==
    LET now == clock
        Added(bl) ==
          /\ store' = Committed(store,
                 Reaggregate([OpenSession(store) EXCEPT
                                  !.burn_logs = @ \cup {bl}], u, now, order))
          /\ resp' = Reply("create_burn_log", u, 200, bl.id)
    IN  /\ NextRowId(store.burn_logs) <= MaxBurnLogs
        /\ Added(BurnLogRow(NextRowId(store.burn_logs), u, now,
                            calories_burned, "manual", "", NULL))
        /\ Cardinality(store'.health_metrics) <= MaxMetrics
        /\ StoreFrame

\* db.query(BurnLog).filter(BurnLog.id == burn_log_id,
\*                          BurnLog.user_id == current_user.id)
OwnBurnLogs(burn_logs, u, id) ==
    {b \in burn_logs : b.id = id /\ b.user_id = u}

\* .first() of a query by primary key, which finds one row at most
TheRow(found) == CHOOSE r \in found : TRUE

\* the session's tables after bl.calories_burned = body.calories_burned:
\* the object is changed and no row is
PendingUpdate(s, bl, calories_burned) == s

\* PUT /burn-logs/{id}; calories_burned is NULL if the body has none
update_burn_log(u, id, calories_burned, order) ==
    LET found == OwnBurnLogs(store.burn_logs, u, id)
        Rewritten(bl, cals) ==
          LET Ended(s) ==
                /\ store' = Committed(store,
                       [s EXCEPT !.burn_logs =
                           (store.burn_logs \ {bl})
                           \cup {[bl EXCEPT !.calories_burned = cals]}])
                /\ resp' = Reply("update_burn_log", u, 200, id)
          IN  Ended(Reaggregate(PendingUpdate(OpenSession(store), bl, cals),
                                u, bl.timestamp, order))
    IN  /\ IF found = {}
           THEN /\ resp' = Reply("update_burn_log", u, 404, id)
                /\ store' = store
           ELSE IF TheRow(found).source # "manual"
           THEN /\ resp' = Reply("update_burn_log", u, 403, id)
                /\ store' = store
           ELSE Rewritten(TheRow(found),
                         IF calories_burned = NULL
                         THEN TheRow(found).calories_burned
                         ELSE calories_burned)
        /\ Cardinality(store'.health_metrics) <= MaxMetrics
        /\ StoreFrame

\* DELETE /burn-logs/{id}
delete_burn_log(u, id, order) ==
    LET found == OwnBurnLogs(store.burn_logs, u, id)
        Deleted(bl) ==
          /\ store' = Committed(store,
                 Reaggregate([OpenSession(store) EXCEPT
                                  !.burn_logs = @ \ {bl}],
                             u, bl.timestamp, order))
          /\ resp' = Reply("delete_burn_log", u, 200, id)
    IN  /\ IF found = {}
           THEN /\ resp' = Reply("delete_burn_log", u, 404, id)
                /\ store' = store
           ELSE IF TheRow(found).source \notin {"manual", "plan_session"}
           THEN /\ resp' = Reply("delete_burn_log", u, 403, id)
                /\ store' = store
           ELSE Deleted(TheRow(found))
        /\ Cardinality(store'.health_metrics) <= MaxMetrics
        /\ StoreFrame


\* one entry of a sync batch; external_id "" for an entry without one,
\* timestamp NULL for one that does not parse
SyncEntry(external_id, timestamp, calories_burned) ==
    [external_id |-> external_id, timestamp |-> timestamp,
     calories_burned |-> calories_burned]

\* (NotRemembered leaves the batch's own ids out of the set)
NotRemembered(existing_ext_ids, ext_id) == existing_ext_ids
\* existing_ext_ids.add(ext_id)
Remembered(existing_ext_ids, ext_id) == existing_ext_ids \cup {ext_id}

RECURSIVE SyncLoop(_, _, _, _)
\* for entry_data in body.entries: the rows added, the ids seen, the
\* timestamps to re-aggregate and the two counters
SyncLoop(entries, u, source, acc) ==
    IF entries = <<>> THEN acc
    ELSE LET e == Head(entries)
         IN  IF \/ e.external_id = ""
                \/ e.external_id \in acc.existing_ext_ids
                \/ e.timestamp = NULL
                \/ e.calories_burned < 0
                \/ e.calories_burned > 50000
             THEN SyncLoop(Tail(entries), u, source,
                           [acc EXCEPT !.skipped = @ + 1])
             ELSE SyncLoop(Tail(entries), u, source,
                      [acc EXCEPT
                         !.burn_logs = @ \cup
                             {BurnLogRow(NextRowId(@), u, e.timestamp,
                                         e.calories_burned, source,
                                         e.external_id, NULL)},
                         !.existing_ext_ids = Remembered(@, e.external_id),
                         !.affected_dates = @ \cup {e.timestamp},
                         !.created = @ + 1])

\* the set of the user's external ids among the incoming ones
ExistingExtIds(burn_logs, u, entries) ==
    {b.external_id : b \in {r \in burn_logs :
        /\ r.user_id = u
        /\ \E i \in 1 .. Len(entries) :
              entries[i].external_id # "" /\
              entries[i].external_id = r.external_id}}

RECURSIVE ReaggregateAll(_, _, _, _)
\* for dt in affected_dates: _reaggregate_burn_for_date(...)
ReaggregateAll(s, u, dts, order) ==
    IF dts = <<>> THEN s
    ELSE ReaggregateAll(Reaggregate(s, u, Head(dts), order), u, Tail(dts),
                        order)

\* POST /burn-logs/sync; the response is created and skipped, kept here with
\* the entries of the request
sync_burn_logs(u, source, entries, order) ==
    LET Synced(acc) ==
          /\ \A b \in acc.burn_logs : b.id <= MaxBurnLogs
          /\ \E dts \in Orders(acc.affected_dates) :
                store' = Committed(store,
                    ReaggregateAll([OpenSession(store) EXCEPT
                                       !.burn_logs = acc.burn_logs],
                                   u, dts, order))
          /\ Cardinality(store'.health_metrics) <= MaxMetrics
          /\ resp' = Reply("sync_burn_logs", u, 200,
                           [created |-> acc.created, skipped |-> acc.skipped,
                            entries |-> entries])
    IN  /\ Synced(SyncLoop(entries, u, source,
               [burn_logs |-> store.burn_logs,
                existing_ext_ids |->
                    ExistingExtIds(store.burn_logs, u, entries),
                affected_dates |-> {}, created |-> 0, skipped |-> 0]))
        /\ StoreFrame

WorkoutPlanRow(id, u, is_active) ==
    [id |-> id, user_id |-> u, is_active |-> is_active]

\* a session of a plan; estimated_calories is what estimate_workout_calories
\* gives for its exercises, 0 for a session without exercises
PlanSessionRow(id, plan_id, estimated_calories) ==
    [id |-> id, plan_id |-> plan_id, is_completed |-> 0,
     completed_at |-> NULL, estimated_calories |-> estimated_calories]

\* (AnySessions finds the session whoever owns its plan)
AnySessions(st, u, session_id) ==
    {ps \in st.plan_sessions : ps.id = session_id}
\* db.query(PlanSession).join(WorkoutPlan).filter(PlanSession.id == session_id,
\*     WorkoutPlan.user_id == current_user.id)
OwnSessions(st, u, session_id) ==
    {ps \in st.plan_sessions :
        /\ ps.id = session_id
        /\ \E wp \in st.workout_plans :
              wp.id = ps.plan_id /\ wp.user_id = u}

\* (CompletedAgain does not look at is_completed)
CompletedAgain(session) == FALSE
\* if session.is_completed
AlreadyCompleted(session) == session.is_completed # 0

\* PUT /plan-sessions/{session_id}/complete
complete_plan_session(u, session_id, order) ==
    LET found == OwnSessions(store, u, session_id)
        now == clock
        Marked(st, session) ==
          [st EXCEPT !.plan_sessions =
              (@ \ {session})
              \cup {[session EXCEPT !.is_completed = 1,
                                    !.completed_at = now]}]
        Completed(session) ==
          IF session.estimated_calories # 0
          THEN /\ NextRowId(store.burn_logs) <= MaxBurnLogs
               /\ store' = Marked(Committed(store,
                      Reaggregate([OpenSession(store) EXCEPT !.burn_logs =
                              @ \cup {BurnLogRow(NextRowId(@), u, now,
                                          session.estimated_calories,
                                          "plan_session", "", session.id)}],
                          u, now, order)), session)
               /\ Cardinality(store'.health_metrics) <= MaxMetrics
               /\ resp' = Reply("complete_plan_session", u, 200,
                                [session_id |-> session_id,
                                 status |-> "completed"])
          ELSE /\ store' = Marked(store, session)
               /\ resp' = Reply("complete_plan_session", u, 200,
                                [session_id |-> session_id,
                                 status |-> "completed"])
    IN  /\ IF found = {}
           THEN /\ resp' = Reply("complete_plan_session", u, 404,
                                 [session_id |-> session_id,
                                  status |-> "not_found"])
                /\ store' = store
           ELSE IF AlreadyCompleted(TheRow(found))
           THEN /\ resp' = Reply("complete_plan_session", u, 200,
                                 [session_id |-> session_id,
                                  status |-> "already_completed"])
                /\ store' = store
           ELSE Completed(TheRow(found))
        /\ StoreFrame

\* POST /health/daily; date, total_expenditure and active_calories are NULL
\* if the body has none
upsert_health_daily(u, date, total_expenditure, active_calories, order) ==
    LET date_str == IF date # NULL THEN date ELSE LocalDate(clock)
        existing == MetricsOf(store.health_metrics, u, date_str)
        Merged(m) ==
          [m EXCEPT !.total_expenditure =
                        IF total_expenditure # NULL
                        THEN total_expenditure ELSE @,
                    !.active_calories =
                        IF active_calories # NULL THEN active_calories ELSE @]
    IN  /\ IF total_expenditure = NULL /\ active_calories = NULL
           THEN /\ resp' = Reply("upsert_health_daily", u, 422, "")
                /\ store' = store
           ELSE IF existing # {}
           THEN /\ store' = [store EXCEPT !.health_metrics =
                       (@ \ {First(existing, order)})
                       \cup {Merged(First(existing, order))}]
                /\ resp' = Reply("upsert_health_daily", u, 200,
                                 First(existing, order).id)
           ELSE /\ Cardinality(store.health_metrics) < MaxMetrics
                /\ store' = [store EXCEPT !.health_metrics =
                       @ \cup {HealthMetricRow(NextRowId(@), u, date_str,
                                   total_expenditure, active_calories,
                                   "manual")}]
                /\ resp' = Reply("upsert_health_daily", u, 200,
                                 NextRowId(store.health_metrics))
        /\ StoreFrame


\* The burn logs and health metrics of two users, one of whom has a plan
\* with a session of exercises and a session without
BurnMaxClock == 1

BurnCallers == {1}
BurnCalories == {100}
BurnUpdates == {NULL, 50}
SyncEntries ==
    {SyncEntry("a", 1, 100), SyncEntry("b", 2, 200), SyncEntry("a", 2, 200),
     SyncEntry("", 1, 100), SyncEntry("c", NULL, 100),
     SyncEntry("c", 0, 0 - 5)}
SyncBatches ==
    {<<e>> : e \in SyncEntries}
    \cup {<<e, f>> : e, f \in {g \in SyncEntries : g.external_id \in {"a", "b"}}}

BurnInit ==
    /\ clock = 0
    /\ users = [u \in Users |-> NewUser(1)]
    /\ recals = {}
    /\ insights = {}
    /\ sweep = NoSweep
    /\ inflight = {}
    /\ resp = NoResp
    /\ store = [NoStore EXCEPT
                   !.workout_plans = {WorkoutPlanRow(1, 1, 1)},
                   !.plan_sessions = {PlanSessionRow(1, 1, 300),
                                      PlanSessionRow(2, 1, 0)}]
    /\ eng = Idle

\* time passes between two requests
BurnTick ==
    /\ clock < BurnMaxClock
    /\ clock' = clock + 1
    /\ UNCHANGED <<users, recals, insights, sweep, inflight, resp, eng, store>>

BurnNext ==
    \/ BurnTick
    \/ \E u \in BurnCallers, c \in BurnCalories, order \in Orders(MetricIds) :
          create_burn_log(u, c, order)
    \/ \E u \in BurnCallers, id \in 1 .. MaxBurnLogs, c \in BurnUpdates,
          order \in Orders(MetricIds) :
          update_burn_log(u, id, c, order)
    \/ \E u \in BurnCallers, id \in 1 .. MaxBurnLogs, order \in Orders(MetricIds) :
          delete_burn_log(u, id, order)
    \/ \E u \in Users, entries \in SyncBatches, order \in Orders(MetricIds) :
          sync_burn_logs(u, "healthkit", entries, order)
    \/ \E u \in BurnCallers, date \in {NULL}, total \in {NULL, 2500},
          active \in {NULL, 400}, order \in Orders(MetricIds) :
          upsert_health_daily(u, date, total, active, order)

SpecBurn == BurnInit /\ [][BurnNext]_vars

\* The sessions of the plan of user 1: either user completes them, and
\* user 1 logs burns and deletes burn logs
SessionNext ==
    \/ BurnTick
    \/ \E u \in Users, session_id \in 1 .. 2, order \in Orders(MetricIds) :
          complete_plan_session(u, session_id, order)
    \/ \E u \in BurnCallers, c \in BurnCalories, order \in Orders(MetricIds) :
          create_burn_log(u, c, order)
    \/ \E u \in BurnCallers, id \in 1 .. MaxBurnLogs,
          order \in Orders(MetricIds) :
          delete_burn_log(u, id, order)

SpecSession == BurnInit /\ [][SessionNext]_vars

-----------------------------------------------------------------------------
(* Accounts: registration, the bearer token and the deletion of an account *)

MaxUsers == 3

\* a users row with its email; a token names the id of its user
AccountRow(email) == [email |-> email] @@ NewUser(1)

\* a row of a table that belongs to a user
OwnedRow(id, u) == [id |-> id, user_id |-> u]

\* a password reset token, which is kept by email
ResetTokenRow(id, email) == [id |-> id, email |-> email]

\* the tables that hold a user's data
DataTables ==
    {"food_logs", "workouts", "weight_entries", "fitness_profiles",
     "workout_plans", "plan_sessions", "reset_tokens", "burn_logs",
     "health_metrics", "recals", "insights"}

\* one row of user u in each table of mix; a plan session needs its plan
DataOf(u, email, mix) ==
    LET Rows(t, row) == IF t \in mix THEN {row} ELSE {}
    IN  [food_logs |-> Rows("food_logs", OwnedRow(u, u)),
         workouts |-> Rows("workouts", OwnedRow(u, u)),
         weight_entries |-> Rows("weight_entries", OwnedRow(u, u)),
         fitness_profiles |-> Rows("fitness_profiles", OwnedRow(u, u)),
         workout_plans |-> Rows("workout_plans", WorkoutPlanRow(u, u, 1)),
         plan_sessions |-> Rows("plan_sessions", PlanSessionRow(u, u, 300)),
         reset_tokens |-> Rows("reset_tokens", ResetTokenRow(u, email)),
         burn_logs |-> Rows("burn_logs",
                            BurnLogRow(u, u, 0, 100, "manual", "", NULL)),
         health_metrics |-> Rows("health_metrics",
                                 HealthMetricRow(u, u, 0, NULL, 100,
                                                 "burn_log")),
         recals |-> Rows("recals", OwnedRow(u, u)),
         insights |-> Rows("insights", OwnedRow(u, u))]

\* the tables of two users' data side by side
Both(d, e) == [t \in DOMAIN d |-> d[t] \cup e[t]]

\* the store's part of the data
StoreOf(d) == [t \in DOMAIN NoStore |-> d[t]]

\* get_current_user: the token's user is looked up by id
Authenticated(us, u) == u \in DOMAIN us

\* the rest of the state, which the account handlers leave alone
AccountFrame == UNCHANGED <<clock, sweep, inflight, eng>>

\* POST /auth/register; the new row takes the next id of the table
register(email) ==
    LET id == IF DOMAIN users = {} THEN 1
              ELSE 1 + CHOOSE i \in DOMAIN users :
                           \A j \in DOMAIN users : j <= i
    IN  /\ IF \E u \in DOMAIN users : users[u].email = email
           THEN /\ resp' = Reply("register", NULL, 400, email)
                /\ users' = users
           ELSE /\ id <= MaxUsers
                /\ users' = (id :> AccountRow(email)) @@ users
                /\ resp' = Reply("register", id, 200, email)
        /\ UNCHANGED <<recals, insights, store>>
        /\ AccountFrame

\* GET /profile with the token of user u
get_profile(u) ==
    /\ resp' = IF Authenticated(users, u)
               THEN Reply("get_profile", u, 200, users[u].email)
               ELSE Reply("get_profile", u, 401, "")
    /\ UNCHANGED <<users, recals, insights, store>>
    /\ AccountFrame

\* the bulk deletes of delete_account: every table it names, by user_id,
\* the plan sessions by plan and the reset tokens by email
BulkDeleted(st, u, email) ==
    LET plan_ids == {wp.id : wp \in {w \in st.workout_plans : w.user_id = u}}
    IN  [st EXCEPT
           !.health_metrics = {r \in @ : r.user_id # u},
           !.plan_sessions = {r \in @ : r.plan_id \notin plan_ids},
           !.workout_plans = {r \in @ : r.user_id # u},
           !.food_logs = {r \in @ : r.user_id # u},
           !.workouts = {r \in @ : r.user_id # u},
           !.weight_entries = {r \in @ : r.user_id # u},
           !.fitness_profiles = {r \in @ : r.user_id # u},
           !.reset_tokens = {r \in @ : r.email # email}]

\* db.delete(current_user): the flush sets the user_id of the rows that are
\* left in the user's relationships to NULL; burn_logs.user_id is NOT NULL
\* and the flush fails on a row of it
Orphans(st, u) == {b \in st.burn_logs : b.user_id = u}

\* DELETE /auth/account with the token of user u
delete_account(u) ==
    LET Deleted(st, email) ==
          IF Orphans(st, u) # {}
          THEN /\ resp' = Reply("delete_account", u, 500, email)
               /\ UNCHANGED <<users, recals, insights, store>>
          ELSE /\ resp' = Reply("delete_account", u, 200, email)
               /\ users' = [v \in DOMAIN users \ {u} |-> users[v]]
               /\ recals' = {r \in recals : r.user_id # u}
               /\ insights' = {r \in insights : r.user_id # u}
               /\ store' = st
    IN  /\ IF ~Authenticated(users, u)
           THEN /\ resp' = Reply("delete_account", u, 401, "")
                /\ UNCHANGED <<users, recals, insights, store>>
           ELSE Deleted(BulkDeleted(store, u, users[u].email),
                        users[u].email)
        /\ AccountFrame

Emails == {"a@x", "b@x"}

\* Two registered users; the first holds any mix of data, the second a row
\* in every table but the burn logs
AccountInit ==
    /\ clock = 0
    /\ users = (1 :> AccountRow("a@x")) @@ (2 :> AccountRow("b@x"))
    /\ \E mix \in SUBSET DataTables :
          LET Starts(d) == /\ store = StoreOf(d)
                           /\ recals = d.recals
                           /\ insights = d.insights
          IN  /\ "plan_sessions" \in mix => "workout_plans" \in mix
              /\ Starts(Both(DataOf(1, "a@x", mix),
                             DataOf(2, "b@x", DataTables \ {"burn_logs"})))
    /\ sweep = NoSweep
    /\ inflight = {}
    /\ resp = NoResp
    /\ eng = Idle

AccountNext ==
    \/ \E u \in 1 .. MaxUsers : delete_account(u)
    \/ \E u \in 1 .. MaxUsers : get_profile(u)
    \/ \E email \in Emails : register(email)

SpecAccount == AccountInit /\ [][AccountNext]_vars

-----------------------------------------------------------------------------
(* Workout plans                                                           *)

MaxPlans == 3

\* what the AI call and the parse of its reply come to: no reply, a reply
\* that is no JSON, JSON of another shape than a plan, or a plan
AiOutcomes == {"down", "bad_json", "bad_shape", "ok"}

\* (NotDeactivated leaves the user's active plans as they are)
NotDeactivated(workout_plans, u) == workout_plans
\* db.query(WorkoutPlan).filter(user_id == current_user.id,
\*                              is_active == 1).update({"is_active": 0})
Deactivated(workout_plans, u) ==
    {IF wp.user_id = u /\ wp.is_active = 1
     THEN [wp EXCEPT !.is_active = 0] ELSE wp : wp \in workout_plans}

\* the sessions of a new plan: the template's one session in each of the
\* six weeks
NewSessions(plan_sessions, plan_id) ==
    {PlanSessionRow(NextRowId(plan_sessions) + week_num - 1, plan_id, 300) :
        week_num \in 1 .. 6}

\* POST /workout-plans/generate
generate_workout_plan(u, ai) ==
    LET Generated(id) ==
          /\ id <= MaxPlans
          /\ store' = [store EXCEPT
                !.workout_plans = Deactivated(@, u)
                                  \cup {WorkoutPlanRow(id, u, 1)},
                !.plan_sessions = @ \cup NewSessions(@, id)]
          /\ resp' = Reply("generate_workout_plan", u, 200, id)
    IN  /\ IF \A fp \in store.fitness_profiles : fp.user_id # u
           THEN /\ resp' = Reply("generate_workout_plan", u, 400, NULL)
                /\ store' = store
           ELSE IF ai # "ok"
           THEN \* the HTTPException of a reply that is no JSON comes before
                \* any write; any other exception is rolled back
                /\ resp' = Reply("generate_workout_plan", u, 500, NULL)
                /\ store' = store
           ELSE Generated(NextRowId(store.workout_plans))
        /\ StoreFrame

\* DELETE /workout-plans/{plan_id}
deactivate_workout_plan(u, plan_id) ==
    LET found == {wp \in store.workout_plans :
                     wp.id = plan_id /\ wp.user_id = u}
    IN  /\ IF found = {}
           THEN /\ resp' = Reply("deactivate_workout_plan", u, 404, plan_id)
                /\ store' = store
           ELSE /\ store' = [store EXCEPT !.workout_plans =
                       (@ \ found) \cup {[TheRow(found) EXCEPT
                                             !.is_active = 0]}]
                /\ resp' = Reply("deactivate_workout_plan", u, 200, plan_id)
        /\ StoreFrame

\* Two users, each with or without a fitness profile, and no plan yet
PlansInit ==
    /\ clock = 0
    /\ users = [u \in Users |-> NewUser(1)]
    /\ recals = {}
    /\ insights = {}
    /\ sweep = NoSweep
    /\ inflight = {}
    /\ resp = NoResp
    /\ \E quizzed \in SUBSET Users :
          store = [NoStore EXCEPT !.fitness_profiles =
                      {OwnedRow(u, u) : u \in quizzed}]
    /\ eng = Idle

PlansNext ==
    \/ \E u \in Users, ai \in AiOutcomes : generate_workout_plan(u, ai)
    \/ \E u \in Users, plan_id \in 1 .. MaxPlans :
          deactivate_workout_plan(u, plan_id)

SpecPlans == PlansInit /\ [][PlansNext]_vars

-----------------------------------------------------------------------------
(* Requests that name a row by its id, and the endpoints that read rows    *)

\* db.query(T).filter(T.id == id, T.user_id == current_user.id)
OwnRows(rows, u, id) == {r \in rows : r.id = id /\ r.user_id = u}

\* DELETE /logs/{log_id}
delete_log(u, log_id) ==
    LET found == OwnRows(store.food_logs, u, log_id)
    IN  /\ IF found = {}
           THEN /\ resp' = Reply("delete_log", u, 404, log_id)
                /\ store' = store
           ELSE /\ store' = [store EXCEPT !.food_logs = @ \ found]
                /\ resp' = Reply("delete_log", u, 200, log_id)
        /\ StoreFrame

\* DELETE /workouts/{workout_id}
delete_workout(u, workout_id) ==
    LET found == OwnRows(store.workouts, u, workout_id)
    IN  /\ IF found = {}
           THEN /\ resp' = Reply("delete_workout", u, 404, workout_id)
                /\ store' = store
           ELSE /\ store' = [store EXCEPT !.workouts = @ \ found]
                /\ resp' = Reply("delete_workout", u, 200, workout_id)
        /\ StoreFrame

\* GET /logs/export: the rows that the response is written from
export_logs_csv(u) ==
    /\ resp' = Reply("export_logs_csv", u, 200,
                     {r \in store.food_logs : r.user_id = u})
    /\ store' = store
    /\ StoreFrame

\* GET /workouts/history
get_workout_history(u) ==
    /\ resp' = Reply("get_workout_history", u, 200,
                     {r \in store.workouts : r.user_id = u})
    /\ store' = store
    /\ StoreFrame

\* GET /burn-logs/export
export_burn_logs(u) ==
    /\ resp' = Reply("export_burn_logs", u, 200,
                     {r \in store.burn_logs : r.user_id = u})
    /\ store' = store
    /\ StoreFrame

\* GET /workout-plans/active: the first active plan of the user and the
\* sessions of that plan
get_active_plan(u, order) ==
    LET active == {wp \in store.workout_plans :
                      wp.user_id = u /\ wp.is_active = 1}
        Read(plan) ==
          [plan |-> {plan},
           sessions |-> {ps \in store.plan_sessions : ps.plan_id = plan.id}]
    IN  /\ resp' = Reply("get_active_plan", u, 200,
                         IF active = {} THEN [plan |-> {}, sessions |-> {}]
                         ELSE Read(First(active, order)))
        /\ store' = store
        /\ StoreFrame

\* Two users, each with a row in every table
ScopeInit ==
    /\ clock = 0
    /\ users = [u \in Users |-> NewUser(1)]
    /\ recals = {}
    /\ insights = {}
    /\ sweep = NoSweep
    /\ inflight = {}
    /\ resp = NoResp
    /\ store = StoreOf(Both(DataOf(1, "a@x", DataTables),
                            DataOf(2, "b@x", DataTables)))
    /\ eng = Idle

ScopeNext ==
    \/ \E u \in Users, id \in 1 .. 2 : delete_log(u, id)
    \/ \E u \in Users, id \in 1 .. 2 : delete_workout(u, id)
    \/ \E u \in Users, id \in 1 .. 2 : deactivate_workout_plan(u, id)
    \/ \E u \in Users, id \in 1 .. 2, order \in Orders(MetricIds) :
          complete_plan_session(u, id, order)
    \/ \E u \in Users, id \in 1 .. 2, c \in BurnUpdates,
          order \in Orders(MetricIds) :
          update_burn_log(u, id, c, order)
    \/ \E u \in Users, id \in 1 .. 2, order \in Orders(MetricIds) :
          delete_burn_log(u, id, order)
    \/ \E u \in Users : export_logs_csv(u)
    \/ \E u \in Users : get_workout_history(u)
    \/ \E u \in Users : export_burn_logs(u)
    \/ \E u \in Users, order \in Orders(MetricIds) : get_active_plan(u, order)

SpecScope == ScopeInit /\ [][ScopeNext]_vars

-----------------------------------------------------------------------------
(* Claims about the burn logs and the health metrics                       *)

\* C21: after any sequence of upserts, burn-log creations, updates,
\* deletions, syncs and session completions there is at most one health
\* metric row for a user and a date
HealthMetricUnique ==
    \A m, n \in store.health_metrics :
        m.user_id = n.user_id /\ m.date = n.date => m = n


\* the entries of a batch that carry an external id are all among the
\* user's burn logs
Imported(st, u, entries) ==
    \A i \in 1 .. Len(entries) :
        entries[i].external_id # "" =>
            \E b \in st.burn_logs :
                b.user_id = u /\ b.external_id = entries[i].external_id

\* the step is a sync of a batch that the same user has just synced
Resubmitted ==
    /\ resp.op = "sync_burn_logs"
    /\ resp'.user = resp.user
    /\ resp'.detail.entries = resp.detail.entries

NoSharedExternalId ==
    \A b, c \in store.burn_logs :
        b.user_id = c.user_id /\ b.external_id # ""
            /\ b.external_id = c.external_id => b = c

\* C22: no two burn logs of a user share an external id, also when a
\* batch repeats one; a sync of a batch that was already imported creates
\* no burn log; and in every sync created + skipped is the number of
\* entries submitted
SyncDedup ==
    /\ []NoSharedExternalId
    /\ [][resp'.op = "sync_burn_logs" /\ clock' = clock =>
            /\ resp'.detail.created + resp'.detail.skipped
                   = Len(resp'.detail.entries)
            /\ Cardinality(store'.burn_logs)
                   = Cardinality(store.burn_logs) + resp'.detail.created
            /\ (Resubmitted \/ Imported(store, resp'.user,
                                        resp'.detail.entries)
                   => /\ resp'.detail.created = 0
                      /\ store'.burn_logs = store.burn_logs)]_vars

\* a batch that repeats an external id was imported and synced again, and
\* the other user holds a burn log of the same external id
SyncedAgain ==
    /\ resp.op = "sync_burn_logs"
    /\ Len(resp.detail.entries) = 2
    /\ resp.detail.entries[1].external_id = resp.detail.entries[2].external_id
    /\ resp.detail.created = 0
    /\ resp.detail.skipped = 2
    /\ Imported(store, resp.user, resp.detail.entries)
    /\ \E b, c \in store.burn_logs :
          b.user_id # c.user_id /\ b.external_id = c.external_id
              /\ b.external_id # ""


\* the burn logs that a step has added, changed or removed
Affected == (store.burn_logs \ store'.burn_logs)
            \cup (store'.burn_logs \ store.burn_logs)

\* the user's metric of the date, where there is one row at most, has the
\* sum of the user's burn logs of the date, none or NULL for a sum of 0
InSync(st, u, date) ==
    LET rows == {b \in st.burn_logs :
                    b.user_id = u /\ LocalDate(b.timestamp) = date}
        Agrees(total, ms) ==
          Cardinality(ms) <= 1 =>
              /\ \A m \in ms :
                    m.active_calories = IF total > 0 THEN total ELSE NULL
              /\ total > 0 => ms # {}
    IN  Agrees(SumOver(rows, [b \in rows |-> b.calories_burned]),
               MetricsOf(st.health_metrics, u, date))

\* C27: right after a committed creation, update, deletion, sync or session
\* completion the metric of the affected date has the sum of the
\* committed burn logs of that date as its active calories
BurnAggregationInSync ==
    [][resp'.op \in {"create_burn_log", "update_burn_log",
                     "delete_burn_log", "sync_burn_logs",
                     "complete_plan_session"}
       /\ resp'.status = 200 /\ clock' = clock
       => \A b \in Affected :
             InSync(store', b.user_id, LocalDate(b.timestamp))]_vars


\* the burn logs made for a plan session
BurnLogsOf(st, session_id) ==
    {b \in st.burn_logs : b.plan_session_id = session_id}

\* C23: the first completion of a plan session marks it completed and
\* makes one burn log for it at most; each later call answers
\* already_completed and changes nothing, also after the burn log was
\* deleted
CompleteOnce ==
    /\ [](\A ps \in store.plan_sessions :
             Cardinality(BurnLogsOf(store, ps.id)) <= 1)
    /\ [][resp'.op = "complete_plan_session" /\ clock' = clock =>
            \A ps \in OwnSessions(store, resp'.user,
                                  resp'.detail.session_id) :
                IF ps.is_completed # 0
                THEN /\ resp'.detail.status = "already_completed"
                     /\ store' = store
                ELSE /\ resp'.detail.status = "completed"
                     /\ [ps EXCEPT !.is_completed = 1,
                                   !.completed_at = clock]
                            \in store'.plan_sessions
                     /\ store'.burn_logs \ store.burn_logs
                            \subseteq BurnLogsOf(store', ps.id)
                     /\ store.burn_logs \subseteq store'.burn_logs]_vars

\* a completed session whose burn log was deleted is completed again
CompletedAfterDelete ==
    /\ resp.op = "complete_plan_session"
    /\ resp.detail.status = "already_completed"
    /\ \E ps \in store.plan_sessions :
          /\ ps.id = resp.detail.session_id
          /\ ps.estimated_calories # 0
          /\ ps.is_completed = 1
          /\ BurnLogsOf(store, ps.id) = {}


-----------------------------------------------------------------------------
(* Claims about accounts                                                   *)

\* no row of any table refers to the user or to the email
NoRowRefers(st, rs, is, u, email) ==
    /\ \A t \in DOMAIN st \ {"plan_sessions", "reset_tokens"} :
          \A r \in st[t] : r.user_id # u
    /\ \A r \in st.plan_sessions :
          \E wp \in st.workout_plans : wp.id = r.plan_id /\ wp.user_id # u
    /\ \A r \in st.reset_tokens : r.email # email
    /\ \A r \in rs \cup is : r.user_id # u

\* C24: for a user holding any mix of data delete_account succeeds, no row
\* of any table refers to the user afterwards, the old token is rejected
\* and the email can register again
AccountDeletion ==
    /\ [][resp'.op = "delete_account" /\ Authenticated(users, resp'.user) =>
            /\ resp'.status = 200
            /\ ~Authenticated(users', resp'.user)
            /\ NoRowRefers(store', recals', insights', resp'.user,
                           users[resp'.user].email)]_vars
    /\ [][resp'.op = "get_profile" /\ ~Authenticated(users, resp'.user) =>
            resp'.status = 401]_vars
    /\ [][resp.op = "delete_account" /\ resp.status = 200
          /\ resp'.op = "register" /\ resp'.detail = resp.detail =>
            resp'.status = 200]_vars


-----------------------------------------------------------------------------
(* Claims about workout plans                                              *)

\* the user's plans with is_active = 1
ActivePlans(st, u) ==
    {wp \in st.workout_plans : wp.user_id = u /\ wp.is_active = 1}

\* C25: a user has one active plan at most; after a successful generate it
\* is the plan just created; a generate that fails leaves the plans, and so
\* the active one, as they were
SingleActivePlan ==
    /\ [](\A u \in Users : Cardinality(ActivePlans(store, u)) <= 1)
    /\ [][resp'.op = "generate_workout_plan" /\ store' # store =>
            /\ resp'.status = 200
            /\ ActivePlans(store', resp'.user)
                   = {WorkoutPlanRow(resp'.detail, resp'.user, 1)}
            /\ \A wp \in store.workout_plans : wp.id # resp'.detail]_vars
    /\ [][resp'.op = "generate_workout_plan" /\ resp'.status # 200 =>
            store' = store]_vars

\* a user who generated a second plan, and so holds an inactive and an
\* active one, saw a generate fail
Regenerated ==
    /\ resp.op = "generate_workout_plan"
    /\ resp.status = 500
    /\ ActivePlans(store, resp.user) # {}
    /\ \E wp \in store.workout_plans :
          wp.user_id = resp.user /\ wp.is_active = 0


-----------------------------------------------------------------------------
(* Claims about per-user scoping                                           *)

\* the users who own the plan of a session
SessionOwners(st, ps) ==
    {wp.user_id : wp \in {w \in st.workout_plans : w.id = ps.plan_id}}

\* the rows of a user in every table
ViewOf(st, u) ==
    [t \in DOMAIN st |->
        IF t = "plan_sessions"
        THEN {ps \in st[t] : u \in SessionOwners(st, ps)}
        ELSE IF t = "reset_tokens" THEN {}
        ELSE {r \in st[t] : r.user_id = u}]

NamingOps ==
    {"delete_log", "delete_workout", "deactivate_workout_plan",
     "complete_plan_session", "update_burn_log", "delete_burn_log"}

ReadOps ==
    {"export_logs_csv", "get_workout_history", "export_burn_logs",
     "get_active_plan"}

\* the users who own the row that a request names
NamedOwners(st, r) ==
    LET OwnersIn(rows, id) == {x.user_id : x \in {y \in rows : y.id = id}}
    IN  CASE r.op = "delete_log" -> OwnersIn(st.food_logs, r.detail)
          [] r.op = "delete_workout" -> OwnersIn(st.workouts, r.detail)
          [] r.op = "deactivate_workout_plan" ->
                 OwnersIn(st.workout_plans, r.detail)
          [] r.op = "complete_plan_session" ->
                 UNION {SessionOwners(st, ps) :
                           ps \in {x \in st.plan_sessions :
                                      x.id = r.detail.session_id}}
          [] OTHER -> OwnersIn(st.burn_logs, r.detail)

\* the users who own the rows that a read returns
ReturnedOwners(st, r) ==
    IF r.op = "get_active_plan"
    THEN {wp.user_id : wp \in r.detail.plan}
         \cup UNION {SessionOwners(st, ps) : ps \in r.detail.sessions}
    ELSE {x.user_id : x \in r.detail}

\* C26: a request of one user that names a row of another answers 404 and
\* changes nothing; a read returns rows of its user only; and no request
\* of one user changes the rows of another
PerUserScoping ==
    [][resp'.op \in NamingOps \cup ReadOps =>
          /\ \A a \in Users \ {resp'.user} :
                ViewOf(store', a) = ViewOf(store, a)
          /\ resp'.op \in NamingOps
             /\ NamedOwners(store, resp') # {}
             /\ resp'.user \notin NamedOwners(store, resp')
                => resp'.status = 404 /\ store' = store
          /\ resp'.op \in ReadOps =>
                ReturnedOwners(store, resp') \subseteq {resp'.user}]_vars

\* a user has named a plan session of another user's plan
ForeignSessionNamed ==
    /\ resp.op = "complete_plan_session"
    /\ resp.status = 404
    /\ NamedOwners(store, resp) # {}
    /\ resp.user \notin NamedOwners(store, resp)

=============================================================================
